---------------------------- MODULE Spec2Model ----------------------------
(***************************************************************************)
(* OKR Manager (src/okr_app.py): the domain model (Task, KeyResult,        *)
(* Objective with derived progress), the mapping between the Objective     *)
(* tree and the flat okr_data records (OKRState.to_dataframe,              *)
(* OKRState._parse_dataframe), the store (DatabaseManager.load_client_data *)
(* and sync_data) and the session with its dirty flag (OKRState and the    *)
(* handlers of render_management).                                         *)
(*                                                                         *)
(* Floats are modelled by integers; a derived progress is the exact        *)
(* rational <<numerator, denominator>> in lowest terms.  Entity ids        *)
(* (uuid4) are not persisted and are left out of the tree; the identity of  *)
(* the instances is kept in the heap of references.                        *)
(***************************************************************************)
EXTENDS Integers, Sequences, FiniteSets, Bags, TLC

VARIABLES
    init_error,    \* db_manager.init_error is set (SessionLocal is None)
    db,            \* table okr_data: committed rows, in insertion order
    pc,            \* per connection: position inside sync_data
    client,        \* per connection: the client argument of sync_data
    df,            \* per connection: the df argument of sync_data
    deleted,       \* per connection: ids of the rows its DELETE removed
    pending,       \* per connection: rows its INSERT added, uncommitted
    result,        \* per connection: value returned by the last sync_data
    objectives,    \* per session: OKRState.objectives
    is_dirty,      \* per session: OKRState.is_dirty
    mapPc,         \* mapper run: position
    mapIn,         \* mapper run: the Objective tree given
    mapDf,         \* mapper run: to_dataframe of it
    mapOut,        \* mapper run: _parse_dataframe of that
    users,         \* table users: the committed rows
    reg,           \* per caller of login / create_user: position and result
    heap,          \* the instances of Objective, KeyResult and Task by reference
    hist           \* history: the last step, what it returned, snapshots

vars == <<init_error, db, pc, client, df, deleted, pending, result,
          objectives, is_dirty, mapPc, mapIn, mapDf, mapOut, users, reg, heap,
          hist>>

(***************************************************************************)
(* Bounds of the model.                                                    *)
(***************************************************************************)
MaxObjectives == 2
MaxKRs == 2
MaxTasks == 1
MaxTreeNodes == 3

\* the trees the record mapper is run on: nodes in all, tasks of a key result
MaxInputNodes == 4
MaxInputTasks == 2

(***************************************************************************)
(* Values.                                                                 *)
(***************************************************************************)
None == "<None>"

Departments == {"Geral", "TI"}
ObjectiveNames == {"O1"}
KRNames == {"", "Novo Key Result"}
Numbers == {-2, -1, 0, 1, 2, 3}
Tenants == {"A", "B"}

DefaultTarget == 1
DefaultCurrent == 0

\* Task(): the dataclass defaults
NewTask ==
    [description |-> "", status |-> "Não Iniciado", responsible |-> "",
     deadline |-> None]

\* KeyResult(name=...): target 1.0, current 0.0, no tasks
NewKeyResult(name) ==
    [name |-> name, target |-> DefaultTarget, current |-> DefaultCurrent,
     tasks |-> <<>>]

\* Objective(department=..., name=...): no key results
NewObjective(department, name) ==
    [department |-> department, name |-> name, krs |-> <<>>]

(***************************************************************************)
(* Exact arithmetic for the derived progress.                              *)
(***************************************************************************)
Abs(n) == IF n < 0 THEN -n ELSE n

RECURSIVE Gcd(_, _)
Gcd(a, b) == IF b = 0 THEN a ELSE Gcd(b, a % b)

\* n / d for d # 0, in lowest terms with a positive denominator
Frac(n, d) ==
    LET g == Gcd(Abs(n), Abs(d))
        s == IF d < 0 THEN -1 ELSE 1
    IN  <<(s * n) \div g, Abs(d) \div g>>

ZeroDivisionError == <<0, 0>>

\* Python's a / b
TrueDiv(a, b) == IF b = 0 THEN ZeroDivisionError ELSE Frac(a, b)

RLeq(x, y) == x[1] * y[2] <= y[1] * x[2]
RMax(x, y) == IF RLeq(x, y) THEN y ELSE x
RMin(x, y) == IF RLeq(x, y) THEN x ELSE y
RAdd(x, y) == Frac(x[1] * y[2] + y[1] * x[2], x[2] * y[2])
RDivInt(x, n) == IF n = 0 THEN ZeroDivisionError ELSE Frac(x[1], x[2] * n)
RZero == <<0, 1>>
ROne == <<1, 1>>

\* a progress that leaves out the clamp to [0, 1]
ProgressUnclamped(kr) ==
    IF kr.target = 0
    THEN (IF kr.current >= 0 THEN ROne ELSE RZero)
    ELSE TrueDiv(kr.current, kr.target)

\* a progress that leaves out the case of a target of 0
ProgressDividing(kr) ==
    LET q == TrueDiv(kr.current, kr.target)
    IN  IF q = ZeroDivisionError THEN q ELSE RMin(RMax(q, RZero), ROne)

\* KeyResult.progress
KeyResult_progress(kr) ==
    IF kr.target = 0
    THEN (IF kr.current >= 0 THEN ROne ELSE RZero)
    ELSE LET q == TrueDiv(kr.current, kr.target)
         IN  IF q = ZeroDivisionError THEN q ELSE RMin(RMax(q, RZero), ROne)

RECURSIVE SumProgress(_, _)
SumProgress(krs, i) ==
    IF i > Len(krs) THEN RZero
    ELSE RAdd(KeyResult_progress(krs[i]), SumProgress(krs, i + 1))

\* a sum in which a key result counts once and once more per task it holds
RECURSIVE WeightedSum(_, _)
WeightedSum(krs, i) ==
    IF i > Len(krs) THEN RZero
    ELSE LET w == 1 + Len(krs[i].tasks)
             q == KeyResult_progress(krs[i])
         IN  RAdd(Frac(w * q[1], q[2]), WeightedSum(krs, i + 1))

RECURSIVE WeightTotal(_, _)
WeightTotal(krs, i) ==
    IF i > Len(krs) THEN 0 ELSE 1 + Len(krs[i].tasks) + WeightTotal(krs, i + 1)

\* a progress that weights each key result by its tasks
ProgressWeighted(obj) ==
    IF obj.krs = <<>> THEN RZero
    ELSE RDivInt(WeightedSum(obj.krs, 1), WeightTotal(obj.krs, 1))

\* Objective.progress
Objective_progress(obj) ==
    IF obj.krs = <<>> THEN RZero
    ELSE RDivInt(SumProgress(obj.krs, 1), Len(obj.krs))

(***************************************************************************)
(* Record mapper.  A record is one row of the frame / of okr_data without  *)
(* its surrogate id.                                                       *)
(***************************************************************************)
Record(departamento, objetivo, kr, tarefa, status, responsavel, prazo, avanco, alvo, cliente) ==
    [departamento |-> departamento, objetivo |-> objetivo, kr |-> kr,
     tarefa |-> tarefa, status |-> status, responsavel |-> responsavel,
     prazo |-> prazo, avanco |-> avanco, alvo |-> alvo, cliente |-> cliente]

RECURSIVE Flatten(_)
Flatten(ss) == IF ss = <<>> THEN <<>> ELSE Head(ss) \o Flatten(Tail(ss))

\* rows of a key result in which one without tasks gets no row
KeyResultRowsSkipping(obj, kr, c) ==
    [i \in 1..Len(kr.tasks) |->
        Record(obj.department, obj.name, kr.name,
               kr.tasks[i].description, kr.tasks[i].status,
               kr.tasks[i].responsible, kr.tasks[i].deadline,
               kr.current, kr.target, c)]

\* to_dataframe, inner loops: the rows of one key result
KeyResultRows(obj, kr, c) ==
    IF kr.tasks = <<>>
    THEN <<Record(obj.department, obj.name, kr.name, "", "", "", "",
                  kr.current, kr.target, c)>>
    ELSE [i \in 1..Len(kr.tasks) |->
            Record(obj.department, obj.name, kr.name,
                   kr.tasks[i].description, kr.tasks[i].status,
                   kr.tasks[i].responsible, kr.tasks[i].deadline,
                   kr.current, kr.target, c)]

\* rows of an objective in which one without key results gets no row
ObjectiveRowsSkipping(obj, c) ==
    Flatten([j \in 1..Len(obj.krs) |-> KeyResultRows(obj, obj.krs[j], c)])

\* to_dataframe, outer loop body: the rows of one objective
ObjectiveRows(obj, c) ==
    IF obj.krs = <<>>
    THEN <<Record(obj.department, obj.name, "", "", "", "", "",
                  DefaultCurrent, DefaultTarget, c)>>
    ELSE Flatten([j \in 1..Len(obj.krs) |-> KeyResultRows(obj, obj.krs[j], c)])

\* a frame without the placeholder rows of Objectives and KeyResults that
\* have no children
FrameOfTasks(objs, c) ==
    Flatten([i \in 1..Len(objs) |->
        Flatten([j \in 1..Len(objs[i].krs) |->
            KeyResultRowsSkipping(objs[i], objs[i].krs[j], c)])])

\* OKRState.to_dataframe, with client = self.user['cliente']
to_dataframe(objs, c) ==
    Flatten([i \in 1..Len(objs) |-> ObjectiveRows(objs[i], c)])

\* df.fillna(''): a missing cell becomes the empty string
FillNa(v) == IF v = None THEN "" ELSE v

\* a NULL numeric cell: pandas reads it as NaN and df.fillna('') makes it ''
NaN == 99

\* a float(x or default) that replaces only the missing cell
OrDefaultKeeping(x, default) == IF x = NaN THEN default ELSE x

\* float(x or default) after df.fillna(''): the missing cell ('') and a falsy
\* number (0.0) are replaced by the default
OrDefault(x, default) == IF x = NaN \/ x = 0 THEN default ELSE x

\* index of the first match of a lookup, given which elements match; 0
\* when none does
FirstIndex(matches) ==
    IF \E i \in 1..Len(matches) : matches[i]
    THEN CHOOSE i \in 1..Len(matches) :
            matches[i] /\ \A j \in 1..(i - 1) : ~matches[j]
    ELSE 0

\* the key result of a row that creates one
RowKeyResult(row) ==
    [name |-> row.kr, target |-> OrDefault(row.alvo, DefaultTarget),
     current |-> OrDefault(row.avanco, DefaultCurrent), tasks |-> <<>>]

\* the task of a row that carries one
RowTask(row) ==
    [description |-> row.tarefa, status |-> FillNa(row.status),
     responsible |-> FillNa(row.responsavel), deadline |-> FillNa(row.prazo)]

\* a loop body in which a later record of a key result overwrites its
\* current and target
ParseIntoObjectiveLastWins(obj, row) ==
    IF FillNa(row.kr) = "" THEN obj
    ELSE LET found == FirstIndex([j \in 1..Len(obj.krs) |->
                                      obj.krs[j].name = row.kr])
             krs1 == IF found = 0 THEN Append(obj.krs, RowKeyResult(row))
                     ELSE [obj.krs EXCEPT
                             ![found].target = RowKeyResult(row).target,
                             ![found].current = RowKeyResult(row).current]
             at == IF found = 0 THEN Len(krs1) ELSE found
         IN  IF FillNa(row.tarefa) = "" THEN [obj EXCEPT !.krs = krs1]
             ELSE [obj EXCEPT !.krs =
                     [krs1 EXCEPT ![at].tasks = Append(@, RowTask(row))]]

\* a loop body without "if not row['kr']: continue": a record with an empty
\* KR name finds or creates a key result of that name
ParseIntoObjectiveUnnamed(obj, row) ==
    LET found == FirstIndex([j \in 1..Len(obj.krs) |->
                                 obj.krs[j].name = FillNa(row.kr)])
        krs1 == IF found = 0 THEN Append(obj.krs, RowKeyResult(row))
                ELSE obj.krs
        at == IF found = 0 THEN Len(krs1) ELSE found
    IN  IF FillNa(row.tarefa) = "" THEN [obj EXCEPT !.krs = krs1]
        ELSE [obj EXCEPT !.krs =
                [krs1 EXCEPT ![at].tasks = Append(@, RowTask(row))]]

\* _parse_dataframe, loop body from "if not row['kr']: continue" on
ParseIntoObjective(obj, row) ==
    IF FillNa(row.kr) = "" THEN obj
    ELSE LET found == FirstIndex([j \in 1..Len(obj.krs) |->
                                      obj.krs[j].name = row.kr])
             krs1 == IF found = 0 THEN Append(obj.krs, RowKeyResult(row))
                     ELSE obj.krs
             at == IF found = 0 THEN Len(krs1) ELSE found
         IN  IF FillNa(row.tarefa) = "" THEN [obj EXCEPT !.krs = krs1]
             ELSE [obj EXCEPT !.krs =
                     [krs1 EXCEPT ![at].tasks = Append(@, RowTask(row))]]

\* a loop that groups only adjacent rows: the key is compared with the last
\* Objective made
ParseRowAdjacent(objs, row) ==
    LET found == IF /\ objs # <<>>
                    /\ objs[Len(objs)].department = FillNa(row.departamento)
                    /\ objs[Len(objs)].name = FillNa(row.objetivo)
                 THEN Len(objs) ELSE 0
        objs1 == IF found = 0
                 THEN Append(objs, NewObjective(FillNa(row.departamento),
                                                FillNa(row.objetivo)))
                 ELSE objs
        at == IF found = 0 THEN Len(objs1) ELSE found
    IN  [objs1 EXCEPT ![at] = ParseIntoObjective(@, row)]

\* _parse_dataframe, one iteration of the loop over the rows
ParseRow(objs, row) ==
    LET found == FirstIndex([i \in 1..Len(objs) |->
                                 /\ objs[i].department = FillNa(row.departamento)
                                 /\ objs[i].name = FillNa(row.objetivo)])
        objs1 == IF found = 0
                 THEN Append(objs, NewObjective(FillNa(row.departamento),
                                                FillNa(row.objetivo)))
                 ELSE objs
        at == IF found = 0 THEN Len(objs1) ELSE found
    IN  [objs1 EXCEPT ![at] = ParseIntoObjective(@, row)]

RECURSIVE ParseRows(_, _, _)
ParseRows(rows, i, objs) ==
    IF i > Len(rows) THEN objs
    ELSE ParseRows(rows, i + 1, ParseRow(objs, rows[i]))

\* OKRState._parse_dataframe
_parse_dataframe(rows) == IF rows = <<>> THEN <<>> ELSE ParseRows(rows, 1, <<>>)

(***************************************************************************)
(* Bounded sets of inputs.                                                 *)
(***************************************************************************)
TaskInputs ==
    { NewTask,
      [description |-> "T1", status |-> "Concluído", responsible |-> "Ana",
       deadline |-> "2026-12-31"],
      [description |-> "T1", status |-> "Não Iniciado", responsible |-> "",
       deadline |-> None] }

TreeNumbers == {0, 1}

KRSize(kr) == 1 + Len(kr.tasks)

RECURSIVE KRsSize(_)
KRsSize(krs) == IF krs = <<>> THEN 0 ELSE KRSize(Head(krs)) + KRsSize(Tail(krs))

ObjectiveSize(obj) == 1 + KRsSize(obj.krs)

RECURSIVE TreeSize(_)
TreeSize(objs) ==
    IF objs = <<>> THEN 0 ELSE ObjectiveSize(Head(objs)) + TreeSize(Tail(objs))

\* task lists of at most n tasks
RECURSIVE TaskSeqs(_)
TaskSeqs(n) ==
    IF n <= 0 THEN {<<>>}
    ELSE {<<>>} \cup {<<t>> \o r : t \in TaskInputs, r \in TaskSeqs(n - 1)}

Min(a, b) == IF a < b THEN a ELSE b

\* key results of at most b nodes, numbers drawn from nums
KRsWithin(b, nums) ==
    [name : KRNames, target : nums, current : nums,
     tasks : TaskSeqs(Min(MaxInputTasks, b - 1))]

\* lists of at most n key results with at most b nodes in all
RECURSIVE KRSeqs(_, _, _)
KRSeqs(n, b, nums) ==
    IF n <= 0 \/ b <= 0 THEN {<<>>}
    ELSE {<<>>} \cup
         UNION { {<<k>> \o r : r \in KRSeqs(n - 1, b - KRSize(k), nums)} :
                 k \in KRsWithin(b, nums) }

ObjectivesWithin(b, nums) ==
    [department : Departments, name : ObjectiveNames,
     krs : KRSeqs(MaxKRs, b - 1, nums)]

\* lists of at most n objectives with at most b nodes in all
RECURSIVE ObjectiveSeqs(_, _, _)
ObjectiveSeqs(n, b, nums) ==
    IF n <= 0 \/ b <= 0 THEN {<<>>}
    ELSE {<<>>} \cup
         UNION { {<<o>> \o r : r \in ObjectiveSeqs(n - 1, b - ObjectiveSize(o), nums)} :
                 o \in ObjectivesWithin(b, nums) }

\* the Objective trees the mapper is run on
TreeInputs == ObjectiveSeqs(MaxObjectives, MaxInputNodes, TreeNumbers)

\* lists of at most n key results without tasks, numbers of either sign and 0
RECURSIVE ProgressKRSeqs(_)
ProgressKRSeqs(n) ==
    IF n <= 0 THEN {<<>>}
    ELSE {<<>>} \cup
         {<<k>> \o r : k \in [name : {"Novo Key Result"}, target : Numbers,
                               current : Numbers, tasks : {<<>>}],
                        r \in ProgressKRSeqs(n - 1)}

\* the same key results, the first of them holding a task
WithTask(krs) ==
    IF krs = <<>> THEN krs ELSE [krs EXCEPT ![1].tasks = <<NewTask>>]

\* the Objectives whose progress is computed
ProgressInputs ==
    [department : {"Geral"}, name : ObjectiveNames,
     krs : ProgressKRSeqs(MaxKRs)
           \cup {WithTask(krs) : krs \in ProgressKRSeqs(MaxKRs)}]

(***************************************************************************)
(* What a tree holds, ids aside: one entry per Task, per KeyResult without *)
(* Tasks and per Objective without KeyResults.                             *)
(***************************************************************************)
KeyResultEntries(obj, kr) ==
    IF kr.tasks = <<>>
    THEN <<[level |-> "kr", department |-> obj.department, name |-> obj.name,
            kr |-> kr.name, current |-> kr.current, target |-> kr.target,
            task |-> NewTask]>>
    ELSE [i \in 1..Len(kr.tasks) |->
            [level |-> "task", department |-> obj.department,
             name |-> obj.name, kr |-> kr.name, current |-> kr.current,
             target |-> kr.target, task |-> kr.tasks[i]]]

ObjectiveEntries(obj) ==
    IF obj.krs = <<>>
    THEN <<[level |-> "objective", department |-> obj.department,
            name |-> obj.name, kr |-> "", current |-> 0, target |-> 0,
            task |-> NewTask]>>
    ELSE Flatten([j \in 1..Len(obj.krs) |-> KeyResultEntries(obj, obj.krs[j])])

TreeEntries(objs) == Flatten([i \in 1..Len(objs) |-> ObjectiveEntries(objs[i])])

SeqToBag(seq) ==
    [e \in {seq[i] : i \in DOMAIN seq} |->
        Cardinality({i \in DOMAIN seq : seq[i] = e})]

(***************************************************************************)
(* Store.  okr_data holds the committed rows, a row being a record with    *)
(* its surrogate id.  The rows are kept in insertion order, one sequence   *)
(* per value of the indexed column cliente: no query of the program reads  *)
(* rows of two tenants together, so their relative order is never seen.    *)
(* sync_data runs DELETE, INSERT and COMMIT as statements of one           *)
(* transaction: a statement reads the rows committed when it runs, and     *)
(* what a transaction deleted or inserted reaches the table when it        *)
(* commits (read committed, the isolation level of the PostgreSQL engine   *)
(* the program creates, which asks for no other).                          *)
(***************************************************************************)
Sessions == {"s1"}
Writers == {"w1", "w2"}
Readers == {"r1"}
Conns == Sessions \cup Writers \cup Readers

\* self.user['cliente'] of a session
SessionClient(s) == "A"

MaxFrameRows == 1

RecordA == Record("Geral", "O1", "K1", "T1", "Concluído", "Ana", "2026-12-31", 1, 2, "A")
RecordB == Record("TI", "O1", "K2", "", "", "", "", 0, 0, "B")

\* the frames a writer hands to sync_data directly: at most MaxFrameRows rows
\* of its own, whose cliente names the tenant saved to or another one
WriterRecord(w) == IF w = "w1" THEN RecordA ELSE RecordB

StoreFrames(w) == {[i \in 1..n |-> WriterRecord(w)] : n \in 0..MaxFrameRows}

WithId(rec, id) ==
    [f \in DOMAIN rec \cup {"id"} |-> IF f = "id" THEN id ELSE rec[f]]

StripId(row) == [f \in DOMAIN row \ {"id"} |-> row[f]]

\* the rows without their surrogate id
Records(rows) == [i \in 1..Len(rows) |-> StripId(rows[i])]

\* the tables the run may start from
SeedRows(recs) == [i \in 1..Len(recs) |-> WithId(recs[i], <<"seed", "", i>>)]

\* the table holding the given rows
TableOf(rows) == [t \in Tenants |-> SelectSeq(rows, LAMBDA r : r.cliente = t)]

SeedTables ==
    { TableOf(<<>>),
      TableOf(SeedRows(<<RecordA, [RecordA EXCEPT !.tarefa = "T2"], RecordB>>)) }

\* every row of the table
AllRows(table) == table["A"] \o table["B"]

\* SELECT * FROM okr_data WHERE cliente = :c
TenantRows(table, c) == SelectSeq(AllRows(table), LAMBDA r : r.cliente = c)

\* a frame inserted with the tenant its rows came with
Unstamped(frame, c) == frame

\* df['cliente'] = client
Stamp(frame, c) == [i \in 1..Len(frame) |-> [frame[i] EXCEPT !.cliente = c]]

RowIds(rows) == {rows[i].id : i \in 1..Len(rows)}

InFlight == {"deleted", "inserted"}

\* no other transaction on the same tenant is between its DELETE and its end
NoOtherWriter(c, t) ==
    \A o \in Conns \ {c} : ~(pc[o] \in InFlight /\ client[o] = t)

\* session.query(OKRDataDB).filter_by(cliente=client).delete(): the rows hit
DeleteTargets(table, c) == RowIds(TenantRows(table, c))

\* bulk_insert_mappings(OKRDataDB, data_dicts), id default str(uuid4()): the
\* i-th row connection c inserts for tenant t gets an id no other row has
\* (the rows c inserted for t before are deleted by the same transaction)
InsertRows(c, frame) ==
    [i \in 1..Len(frame) |-> WithId(frame[i], <<c, frame[i].cliente, i>>)]

\* a commit whose deletes are lost
CommitAppending(table, ids, rows) ==
    [t \in Tenants |-> table[t] \o SelectSeq(rows, LAMBDA r : r.cliente = t)]

\* session.commit(): the transaction's deletes and inserts reach the table
CommitTable(table, ids, rows) ==
    [t \in Tenants |->
        SelectSeq(table[t], LAMBDA r : r.id \notin ids)
        \o SelectSeq(rows, LAMBDA r : r.cliente = t)]

\* a read that sees the deletes of the transactions still open
DirtyRead(c) ==
    IF init_error THEN <<>>
    ELSE LET gone == UNION {deleted[o] : o \in Conns}
         IN  SelectSeq(TenantRows(db, c), LAMBDA r : r.id \notin gone)

\* load_client_data: the rows read when the read does not fail
load_client_data(c) == IF init_error THEN <<>> ELSE TenantRows(db, c)

\* what load_client_data(t) returns: the rows of its one SELECT, or an
\* empty frame when the read raises (except: return pd.DataFrame())
LoadResult(t, failed) ==
    [client |-> t, failed |-> failed \/ init_error,
     rows |-> IF failed THEN <<>> ELSE load_client_data(t)]

NoLoad == [client |-> "", failed |-> FALSE, rows |-> <<>>]

\* the history after a step op of connection c inside sync_data
SyncStep(op, c) ==
    [hist EXCEPT !.op = op, !.conn = c, !.loaded = NoLoad, !.failed = FALSE]

\* the history after a step op of connection c that starts a handler
Step(op, c) ==
    [SyncStep(op, c) EXCEPT !.ok = FALSE, !.notified = "", !.dirtyBefore = FALSE,
                            !.attempts = 0, !.resaved = FALSE]

\* a sync_data that lets the exception of get_session() reach its caller
SyncEntryRaising == IF init_error THEN "raised" ELSE "deleted"

\* where sync_data stands after get_session(): the exception raised when
\* the engine was never created is caught and False is returned
SyncEntry == IF init_error THEN "ret" ELSE "deleted"

\* sync_data(df, client) up to its first statement: get_session() raises
\* when the engine was never created; else the transaction begins with
\* DELETE FROM okr_data WHERE cliente = client
SyncCall(c, frame, t) ==
    /\ pc[c] = "idle"
    /\ client' = [client EXCEPT ![c] = t]
    /\ df' = [df EXCEPT ![c] = frame]
    /\ pc' = [pc EXCEPT ![c] = SyncEntry]
    /\ deleted' = [deleted EXCEPT ![c] =
                     IF init_error THEN {} ELSE DeleteTargets(db, t)]
    /\ result' = [result EXCEPT ![c] = FALSE]
    /\ UNCHANGED <<init_error, db, pending>>

\* what the history keeps of a call of sync_data
CallHistory(c, t, op) ==
    [Step(op, c) EXCEPT
        !.attempts = 1,
        !.failed = init_error,
        !.pre[c] = IF init_error THEN <<>> ELSE TenantRows(db, t),
        !.alone = [o \in Conns |->
                     IF o = c THEN NoOtherWriter(c, t)
                     ELSE IF client[o] = t /\ pc[o] # "idle" /\ ~init_error
                          THEN FALSE
                     ELSE hist.alone[o]]]

\* if not df.empty: stamp the tenant and bulk insert, inside the transaction
SyncInsert(c) ==
    /\ pc[c] = "deleted"
    /\ df[c] # <<>>
    /\ pending' = [pending EXCEPT ![c] = InsertRows(c, Stamp(df[c], client[c]))]
    /\ pc' = [pc EXCEPT ![c] = "inserted"]
    /\ hist' = SyncStep("insert", c)
    /\ UNCHANGED <<init_error, db, client, df, deleted, result>>

\* session.commit(); return True
SyncCommit(c) ==
    /\ pc[c] = (IF df[c] = <<>> THEN "deleted" ELSE "inserted")
    /\ db' = CommitTable(db, deleted[c], pending[c])
    /\ pc' = [pc EXCEPT ![c] = "ret"]
    /\ result' = [result EXCEPT ![c] = TRUE]
    /\ deleted' = [o \in Conns |-> IF o = c THEN {} ELSE deleted[o] \ deleted[c]]
    /\ pending' = [pending EXCEPT ![c] = <<>>]
    /\ hist' = [SyncStep("commit", c) EXCEPT
                  !.pre[c] = <<>>, !.clean = TRUE, !.resaved = hist.clean]
    /\ UNCHANGED <<init_error, client, df>>

\* a failure that leaves the DELETE of the transaction in the table
DeleteKept(table, gone, added) == CommitTable(table, gone, <<>>)

\* the session is closed without a commit: nothing of the transaction stays
RolledBack(table, gone, added) == table

\* except Exception: the transaction is rolled back; return False
SyncFail(c) ==
    /\ pc[c] \in InFlight
    /\ db' = RolledBack(db, deleted[c], pending[c])
    /\ pc' = [pc EXCEPT ![c] = "ret"]
    /\ result' = [result EXCEPT ![c] = FALSE]
    /\ deleted' = [deleted EXCEPT ![c] = {}]
    /\ pending' = [pending EXCEPT ![c] = <<>>]
    /\ hist' = [SyncStep("rollback", c) EXCEPT !.pre[c] = <<>>, !.failed = TRUE]
    /\ UNCHANGED <<init_error, client, df>>

SessionVars == <<objectives, is_dirty>>
MapperVars == <<mapPc, mapIn, mapDf, mapOut>>
UserVars == <<users, reg>>
HeapVars == <<heap>>
StoreVars == <<init_error, db, pc, client, df, deleted, pending, result>>

\* no instance, no Objective in the list
HeapEmpty == [objectives |-> <<>>, cell |-> [r \in {} |-> None]]

HeapIdle == heap = HeapEmpty

(***************************************************************************)
(* The store called directly by concurrent writers and a reader.           *)
(***************************************************************************)
NoHistory ==
    [op |-> "init", conn |-> "none", loaded |-> NoLoad,
     alone |-> [c \in Conns |-> TRUE],
     pre |-> [c \in Conns |-> <<>>],
     ok |-> FALSE, notified |-> "", dirtyBefore |-> FALSE, attempts |-> 0,
     clean |-> FALSE, resaved |-> FALSE, failed |-> FALSE]

StoreIdle ==
    /\ pc = [c \in Conns |-> "idle"]
    /\ client = [c \in Conns |-> "A"]
    /\ df = [c \in Conns |-> <<>>]
    /\ deleted = [c \in Conns |-> {}]
    /\ pending = [c \in Conns |-> <<>>]
    /\ result = [c \in Conns |-> FALSE]

SessionIdle ==
    /\ objectives = [s \in Sessions |-> <<>>]
    /\ is_dirty = [s \in Sessions |-> FALSE]

MapperIdle ==
    /\ mapPc = "idle"
    /\ mapIn = <<>>
    /\ mapDf = <<>>
    /\ mapOut = <<>>

(***************************************************************************)
(* Table users and the two operations on it.  username is the primary key: *)
(* the database refuses the commit of a second row of the same username.   *)
(***************************************************************************)
Registrants == {"u1", "u2"}
Usernames == {"ana", "bob"}
Passwords == {"p1", "p2"}

\* UserDB(username=..., password=..., name=..., cliente=...)
UserDB(username, password) ==
    [username |-> username, password |-> password, name |-> "Ana", cliente |-> "A"]

\* the users tables the run may start from
UserSeeds == { {}, {UserDB("ana", "p1")} }

\* session.query(UserDB).filter_by(username=username).first() is not None
UserExists(table, username) == \E r \in table : r.username = username

\* what login returns when its query does not fail
login(table, username, password) ==
    LET found == {r \in table : r.username = username /\ r.password = password}
    IN  IF found = {} THEN None
        ELSE LET user == CHOOSE r \in found : TRUE
             IN  [username |-> user.username, name |-> user.name,
                  cliente |-> user.cliente]

NoRequest == [username |-> "", password |-> ""]

RegIdle == [pc |-> "idle", req |-> NoRequest, existed |-> FALSE, ok |-> FALSE,
            msg |-> "", user |-> None]

UserIdle ==
    /\ users = {}
    /\ reg = [u \in Registrants |-> RegIdle]

\* what create_user returns
Returned(r, ok, msg) == [r EXCEPT !.pc = "ret", !.ok = ok, !.msg = msg]

\* DatabaseManager.login: one query; None when get_session or the query raises
Login(u, username, password) ==
    /\ reg[u].pc = "idle"
    /\ \E failed \in BOOLEAN :
          /\ reg' = [reg EXCEPT ![u] =
                       [RegIdle EXCEPT
                          !.pc = "ret",
                          !.req = [username |-> username, password |-> password],
                          !.user = IF init_error \/ failed THEN None
                                   ELSE login(users, username, password)]]
          /\ hist' = [Step("login", u) EXCEPT !.failed = init_error \/ failed]
    /\ UNCHANGED <<StoreVars, SessionVars, MapperVars, HeapVars, users>>

\* create_user up to session.add(new_user): get_session, the query for the
\* username, return False when it exists
CreateUserCall(u, username, password) ==
    /\ reg[u].pc = "idle"
    /\ \E failed \in BOOLEAN :
          LET r == [RegIdle EXCEPT
                      !.req = [username |-> username, password |-> password],
                      !.existed = UserExists(users, username)]
          IN  /\ reg' = [reg EXCEPT ![u] =
                           IF init_error \/ failed THEN Returned(r, FALSE, "error")
                           ELSE IF UserExists(users, username)
                                THEN Returned(r, FALSE, "Usuário já existe")
                           ELSE [r EXCEPT !.pc = "adding"]]
              /\ hist' = [Step("create_user", u) EXCEPT !.failed = init_error \/ failed]
    /\ UNCHANGED <<StoreVars, SessionVars, MapperVars, HeapVars, users>>

\* a users table whose username is not a key: only an I/O error refuses
RefusedOnError(table, username, failed) == failed

\* session.commit() raises: username is the primary key of users, so a row
\* whose username is in the table by now is refused, as is any I/O error
Refused(table, username, failed) == failed \/ UserExists(table, username)

\* the table after session.add(new_user); session.commit() went through
UsersAdded(table, row) == table \cup {row}

\* create_user from session.add(new_user) on: the commit fails when the
\* username is in the table by now (primary key) or on an I/O error
CreateUserCommit(u) ==
    /\ reg[u].pc = "adding"
    /\ \E failed \in BOOLEAN :
          LET refused == Refused(users, reg[u].req.username, failed)
              row == UserDB(reg[u].req.username, reg[u].req.password)
          IN  /\ users' = IF refused THEN users ELSE UsersAdded(users, row)
              /\ reg' = [reg EXCEPT ![u] =
                           IF refused THEN Returned(@, FALSE, "error")
                           ELSE Returned(@, TRUE, "Usuário criado com sucesso")]
              /\ hist' = [Step("create_user_commit", u) EXCEPT !.failed = refused]
    /\ UNCHANGED <<StoreVars, SessionVars, MapperVars, HeapVars>>

\* the caller of login or create_user has its result
UserReturn(u) ==
    /\ reg[u].pc = "ret"
    /\ reg' = [reg EXCEPT ![u] = RegIdle]
    /\ hist' = Step("user_return", u)
    /\ UNCHANGED <<StoreVars, SessionVars, MapperVars, HeapVars, users>>

WriterCall(w, frame, t) ==
    /\ SyncCall(w, frame, t)
    /\ hist' = CallHistory(w, t, "call")
    /\ UNCHANGED <<SessionVars, MapperVars, UserVars, HeapVars>>

WriterReturn(w) ==
    /\ pc[w] = "ret"
    /\ pc' = [pc EXCEPT ![w] = "idle"]
    /\ client' = [client EXCEPT ![w] = "A"]
    /\ df' = [df EXCEPT ![w] = <<>>]
    /\ result' = [result EXCEPT ![w] = FALSE]
    /\ hist' = [SyncStep("return", w) EXCEPT !.alone[w] = TRUE, !.ok = result[w]]
    /\ UNCHANGED <<init_error, db, deleted, pending, SessionVars, MapperVars, UserVars, HeapVars>>

ReaderLoad(r, t) ==
    /\ pc[r] = "idle"
    /\ \E failed \in BOOLEAN :
          hist' = [Step("load", r) EXCEPT
                     !.loaded = LoadResult(t, failed),
                     !.failed = LoadResult(t, failed).failed]
    /\ UNCHANGED <<StoreVars, SessionVars, MapperVars, UserVars, HeapVars>>

StoreInit ==
    /\ init_error \in BOOLEAN
    /\ db \in SeedTables
    /\ StoreIdle
    /\ SessionIdle
    /\ MapperIdle
    /\ UserIdle
    /\ HeapIdle
    /\ hist = NoHistory

StoreNext ==
    \/ \E w \in Writers : \E frame \in StoreFrames(w), t \in Tenants :
            WriterCall(w, frame, t)
    \/ \E w \in Writers : SyncInsert(w) /\ UNCHANGED <<SessionVars, MapperVars, UserVars, HeapVars>>
    \/ \E w \in Writers : SyncCommit(w) /\ UNCHANGED <<SessionVars, MapperVars, UserVars, HeapVars>>
    \/ \E w \in Writers : SyncFail(w) /\ UNCHANGED <<SessionVars, MapperVars, UserVars, HeapVars>>
    \/ \E w \in Writers : WriterReturn(w)
    \/ \E r \in Readers, t \in Tenants : ReaderLoad(r, t)

SpecStore == StoreInit /\ [][StoreNext]_vars

\* the step ends a sync_data of connection c with False
ReturnsFailure(c) == pc[c] # "ret" /\ pc'[c] = "ret" /\ ~result'[c]

\* C25: a sync_data(records, T) that returns failure, whether the error is
\* at the start, after the delete or after the insert, leaves the table as
\* it was, and the rows of T as they were before the call when no other
\* save of T ran meanwhile; the table changes only at a commit that returns
\* True and that holds the rows inserted along with the delete.
C25_FailedSaveKeepsRows ==
    /\ [][\A c \in Writers :
             ReturnsFailure(c) =>
                 /\ db' = db
                 /\ (pc[c] \in InFlight /\ hist.alone[c]) =>
                       TenantRows(db', client[c]) = hist.pre[c]]_vars
    /\ [][db' # db =>
             \E c \in Writers :
                 /\ pc[c] \in InFlight /\ pc'[c] = "ret" /\ result'[c]
                 /\ df[c] # <<>> => pending[c] # <<>>
                 /\ \A i \in 1..Len(pending[c]) :
                       \E j \in 1..Len(db'[client[c]]) :
                           db'[client[c]][j] = pending[c][i]]_vars

\* a save of a tenant that holds rows failed after its delete and insert,
\* no other save of the tenant under way, and the rows are there
C25_Witness ==
    /\ hist.op = "rollback"
    /\ hist.alone[hist.conn]
    /\ df[hist.conn] # <<>>
    /\ TenantRows(db, client[hist.conn]) # <<>>
    /\ Records(TenantRows(db, client[hist.conn])) # Stamp(df[hist.conn], client[hist.conn])

(***************************************************************************)
(* Registration and login by concurrent callers.                           *)
(***************************************************************************)
UsersInit ==
    /\ init_error \in BOOLEAN
    /\ db = TableOf(<<>>)
    /\ StoreIdle
    /\ SessionIdle
    /\ MapperIdle
    /\ users \in UserSeeds
    /\ reg = [u \in Registrants |-> RegIdle]
    /\ HeapIdle
    /\ hist = NoHistory

UsersNext ==
    \E u \in Registrants :
        \/ \E n \in Usernames, p \in Passwords : Login(u, n, p)
        \/ \E n \in Usernames, p \in Passwords : CreateUserCall(u, n, p)
        \/ CreateUserCommit(u)
        \/ UserReturn(u)

SpecUsers == UsersInit /\ [][UsersNext]_vars

CreateUserOps == {"create_user", "create_user_commit"}

\* the step ends a create_user call of registrant u
CreateUserEnds(u) ==
    /\ hist'.op \in CreateUserOps
    /\ hist'.conn = u
    /\ reg'[u].pc = "ret"

\* exactly one row, the one asked for, was added to the users table
InsertedOne(u) ==
    LET row == UserDB(reg'[u].req.username, reg'[u].req.password)
    IN  /\ row \notin users
        /\ users' = users \cup {row}
        /\ reg'[u].ok

\* no two rows of the users table have the same username
OneRowPerUsername ==
    \A r1, r2 \in users : r1.username = r2.username => r1 = r2

\* a row of the users table stays as it is
RowsKept == [][users \subseteq users']_vars

\* C18, as stated: create_user fails and leaves the users table unchanged
\* when the username is there, and otherwise inserts exactly one row.
C18_InsertsOtherwise ==
    [][\A u \in Registrants :
          CreateUserEnds(u) =>
              IF UserExists(users, reg'[u].req.username)
              THEN users' = users /\ ~reg'[u].ok
              ELSE InsertedOne(u)]_vars

\* C18: create_user fails and leaves the users table unchanged when the
\* username is there or when the store or a statement fails, and otherwise
\* inserts exactly one row and returns True; under every interleaving of two
\* registrants the table has at most one row per username and a row that is
\* there is never overwritten or removed.
C18_Registration ==
    /\ [][\A u \in Registrants :
             CreateUserEnds(u) =>
                 IF UserExists(users, reg'[u].req.username) \/ hist'.failed
                 THEN users' = users /\ ~reg'[u].ok /\ reg'[u].msg # ""
                 ELSE InsertedOne(u)]_vars
    /\ []OneRowPerUsername
    /\ RowsKept

\* two registrants asked for the same free username with different
\* passwords; one was created, the other refused, and one row is there
C18_Witness ==
    /\ \A u \in Registrants : reg[u].pc = "ret" /\ ~reg[u].existed
    /\ reg["u1"].req.username = reg["u2"].req.username
    /\ reg["u1"].req.password # reg["u2"].req.password
    /\ reg["u1"].ok /\ ~reg["u2"].ok
    /\ hist.op = "create_user_commit"
    /\ Cardinality({r \in users : r.username = reg["u1"].req.username}) = 1

(***************************************************************************)
(* The four operations of DatabaseManager called by one caller, one        *)
(* operation at a time, each with the failures it can meet.                *)
(***************************************************************************)
Quiet ==
    /\ \A c \in Conns : pc[c] = "idle"
    /\ \A u \in Registrants : reg[u].pc = "idle"

ApiInit ==
    /\ init_error \in BOOLEAN
    /\ db \in SeedTables
    /\ StoreIdle
    /\ SessionIdle
    /\ MapperIdle
    /\ users \in UserSeeds
    /\ reg = [u \in Registrants |-> RegIdle]
    /\ HeapIdle
    /\ hist = NoHistory

ApiNext ==
    \/ Quiet /\ \E frame \in StoreFrames("w1"), t \in Tenants :
                    WriterCall("w1", frame, t)
    \/ SyncInsert("w1") /\ UNCHANGED <<SessionVars, MapperVars, UserVars, HeapVars>>
    \/ SyncCommit("w1") /\ UNCHANGED <<SessionVars, MapperVars, UserVars, HeapVars>>
    \/ SyncFail("w1") /\ UNCHANGED <<SessionVars, MapperVars, UserVars, HeapVars>>
    \/ WriterReturn("w1")
    \/ Quiet /\ \E t \in Tenants : ReaderLoad("r1", t)
    \/ Quiet /\ \E n \in Usernames, p \in Passwords : Login("u1", n, p)
    \/ Quiet /\ \E n \in Usernames, p \in Passwords : CreateUserCall("u1", n, p)
    \/ CreateUserCommit("u1")
    \/ UserReturn("u1")

SpecApi == ApiInit /\ [][ApiNext]_vars

\* C15: when the connection failed at startup or an operation hits an error,
\* load_client_data returns no rows, sync_data returns False, login returns
\* None and create_user returns (False, message); nothing is raised to the
\* caller, and the rows of okr_data and of users are as before.
C15_FailSoft ==
    /\ [](hist.failed =>
            /\ \A c \in Conns : pc[c] # "raised"
            /\ hist.op = "load" => hist.loaded.rows = <<>>
            /\ hist.op \in {"call", "rollback"} =>
                  (pc[hist.conn] = "ret" /\ ~result[hist.conn])
            /\ hist.op = "login" =>
                  (reg[hist.conn].pc = "ret" /\ reg[hist.conn].user = None)
            /\ hist.op \in {"create_user", "create_user_commit"} =>
                  /\ reg[hist.conn].pc = "ret"
                  /\ ~reg[hist.conn].ok
                  /\ reg[hist.conn].msg # "")
    /\ [][hist'.failed => (db' = db /\ users' = users)]_vars

\* a sync_data of a non-empty frame failed inside its transaction, after
\* the DELETE of the rows the tenant holds
C15_Witness ==
    /\ hist.op = "rollback"
    /\ hist.failed
    /\ ~init_error
    /\ df[hist.conn] # <<>>
    /\ TenantRows(db, client[hist.conn]) # <<>>
    /\ users # {}

SyncOps == {"call", "insert", "commit", "rollback"}

\* C3: load_client_data(A) never returns a row of another tenant, and no step
\* of sync_data(records, A) changes the persisted rows of a tenant other than
\* A, whatever tenant the records carry.
C3_TenantIsolation ==
    /\ [](hist.op = "load" =>
            \A i \in 1..Len(hist.loaded.rows) :
                hist.loaded.rows[i].cliente = hist.loaded.client)
    /\ [][hist'.op \in SyncOps =>
            \A t \in Tenants \ {client'[hist'.conn]} :
                TenantRows(db', t) = TenantRows(db, t)]_vars

\* a save to tenant A of a record that names tenant B has committed while B
\* holds rows
C3_Witness ==
    /\ hist.op = "commit"
    /\ client[hist.conn] = "A"
    /\ df[hist.conn] # <<>>
    /\ df[hist.conn][1].cliente = "B"
    /\ TenantRows(db, "B") # <<>>
    /\ TenantRows(db, "A") # <<>>

\* C4: a load of tenant T that runs while a save of T is between its DELETE
\* and its end returns the complete rows from before the save, and one that
\* runs after the save committed returns the complete rows the save wrote;
\* never the rows after the delete alone, never a part of the insert (the
\* save being the only one of T under way).
C4_SaveAllOrNothing ==
    (hist.op = "load" /\ ~hist.loaded.failed) =>
        \A c \in Conns :
            (client[c] = hist.loaded.client /\ hist.alone[c]) =>
                /\ pc[c] \in InFlight => hist.loaded.rows = hist.pre[c]
                /\ (pc[c] = "ret" /\ result[c]) =>
                      Records(hist.loaded.rows) = Stamp(df[c], client[c])

\* a load ran while the one save of its tenant had deleted the rows the
\* tenant held and inserted its own, with nothing committed
C4_Witness ==
    /\ hist.op = "load"
    /\ ~hist.loaded.failed
    /\ \E c \in Conns :
          /\ pc[c] = "inserted"
          /\ client[c] = hist.loaded.client
          /\ hist.alone[c]
          /\ hist.pre[c] # <<>>
          /\ hist.loaded.rows = hist.pre[c]

\* C5: when two saves of the same tenant ran concurrently and both
\* succeeded, the rows the tenant holds are the records of exactly one of
\* them, never a union or mixture of both.
C5_LastWriteWins ==
    \A a, b \in Writers :
        ( /\ a # b
          /\ pc[a] = "ret" /\ pc[b] = "ret"
          /\ result[a] /\ result[b]
          /\ client[a] = client[b]
          /\ ~hist.alone[a] /\ ~hist.alone[b] ) =>
            Records(TenantRows(db, client[a]))
                \in {Stamp(df[a], client[a]), Stamp(df[b], client[b])}

\* C7: once sync_data(records, T) committed, the rows of tenant T are the
\* given records, each stamped with T, whatever T held before; none when
\* records is empty.
C7_FullReplace ==
    hist.op = "commit" =>
        Records(TenantRows(db, client[hist.conn]))
            = Stamp(df[hist.conn], client[hist.conn])

(***************************************************************************)
(* Session: one OKRState and the handlers that act on it.  A handler runs  *)
(* to its end before the next one starts; save() waits on the store.       *)
(***************************************************************************)
StatusInputs == {"Não Iniciado", "Concluído"}
DescriptionInputs == {"", "T1"}
ResponsibleInputs == {""}
DeadlineInputs == {""}
CurrentInputs == {0, 1}
TargetInputs == {1}

SessionSeedTables ==
    { TableOf(<<>>),
      TableOf(SeedRows(<<
          Record("Geral", "O1", "Novo Key Result", "T1", "Concluído", "", None, 1, 0, "A"),
          RecordB >>)) }

RemoveAt(seq, i) == SubSeq(seq, 1, i - 1) \o SubSeq(seq, i + 1, Len(seq))

Idle(s) == pc[s] = "idle"

\* a mark_dirty that flips the flag
DirtyToggled(s) == [is_dirty EXCEPT ![s] = ~@]

\* OKRState.mark_dirty
mark_dirty(s) == [is_dirty EXCEPT ![s] = TRUE]

\* the history after a handler that changes the tree
Mutation(op, s) == [Step(op, s) EXCEPT !.clean = FALSE]

Untouched == <<StoreVars, MapperVars, UserVars, HeapVars>>

\* a load that keeps the tree it finds and adds what it read
LoadedAppending(tree, rows) == tree \o _parse_dataframe(Records(rows))

\* self.objectives = self._parse_dataframe(df)
LoadedTree(tree, rows) == _parse_dataframe(Records(rows))

\* OKRState.load with the read of load_client_data failing or not
LoadWith(s, failed) ==
    /\ Idle(s)
    /\ LET got == LoadResult(SessionClient(s), failed)
       IN  /\ objectives' = [objectives EXCEPT ![s] = LoadedTree(@, got.rows)]
           /\ hist' = [Mutation("load", s) EXCEPT
                         !.loaded = got, !.failed = got.failed,
                         !.dirtyBefore = is_dirty[s]]
    /\ is_dirty' = [is_dirty EXCEPT ![s] = FALSE]
    /\ UNCHANGED Untouched

\* OKRState.load, also run by OKRState.__init__
Load(s) == \E failed \in BOOLEAN : LoadWith(s, failed)

\* OKRState.add_objective
AddObjective(s, department, name) ==
    /\ Idle(s)
    /\ Len(objectives[s]) < MaxObjectives
    /\ TreeSize(objectives[s]) < MaxTreeNodes
    /\ objectives' = [objectives EXCEPT ![s] =
                        Append(@, NewObjective(department, name))]
    /\ is_dirty' = mark_dirty(s)
    /\ hist' = Mutation("mutation", s)
    /\ UNCHANGED Untouched

\* OKRState.remove_objective
RemoveObjective(s, i) ==
    /\ Idle(s)
    /\ i \in 1..Len(objectives[s])
    /\ objectives' = [objectives EXCEPT ![s] = RemoveAt(@, i)]
    /\ is_dirty' = mark_dirty(s)
    /\ hist' = Mutation("mutation", s)
    /\ UNCHANGED Untouched

\* o.krs.append(KeyResult(name="Novo Key Result")); render_management.refresh()
AppendKeyResult(s, i) ==
    /\ Idle(s)
    /\ i \in 1..Len(objectives[s])
    /\ Len(objectives[s][i].krs) < MaxKRs
    /\ TreeSize(objectives[s]) < MaxTreeNodes
    /\ objectives' = [objectives EXCEPT ![s][i].krs =
                        Append(@, NewKeyResult("Novo Key Result"))]
    /\ UNCHANGED is_dirty
    /\ hist' = Mutation("mutation", s)
    /\ UNCHANGED Untouched

\* button 'Adicionar Key Result' of an objective without key results
AddFirstKeyResult(s, i) ==
    /\ i \in 1..Len(objectives[s])
    /\ objectives[s][i].krs = <<>>
    /\ AppendKeyResult(s, i)

\* button 'Adicionar Key Result' below the key results of an objective
AddKeyResult(s, i) ==
    /\ i \in 1..Len(objectives[s])
    /\ objectives[s][i].krs # <<>>
    /\ AppendKeyResult(s, i)

\* o.krs.remove(k), state.mark_dirty()
RemoveKeyResult(s, i, j) ==
    /\ Idle(s)
    /\ i \in 1..Len(objectives[s])
    /\ j \in 1..Len(objectives[s][i].krs)
    /\ objectives' = [objectives EXCEPT ![s][i].krs = RemoveAt(@, j)]
    /\ is_dirty' = mark_dirty(s)
    /\ hist' = Mutation("mutation", s)
    /\ UNCHANGED Untouched

\* k.tasks.append(Task()); render_management.refresh()
AddTask(s, i, j) ==
    /\ Idle(s)
    /\ i \in 1..Len(objectives[s])
    /\ j \in 1..Len(objectives[s][i].krs)
    /\ Len(objectives[s][i].krs[j].tasks) < MaxTasks
    /\ TreeSize(objectives[s]) < MaxTreeNodes
    /\ objectives' = [objectives EXCEPT ![s][i].krs[j].tasks = Append(@, NewTask)]
    /\ UNCHANGED is_dirty
    /\ hist' = Mutation("mutation", s)
    /\ UNCHANGED Untouched

\* k.tasks.remove(t), state.mark_dirty()
RemoveTask(s, i, j, k) ==
    /\ Idle(s)
    /\ i \in 1..Len(objectives[s])
    /\ j \in 1..Len(objectives[s][i].krs)
    /\ k \in 1..Len(objectives[s][i].krs[j].tasks)
    /\ objectives' = [objectives EXCEPT ![s][i].krs[j].tasks = RemoveAt(@, k)]
    /\ is_dirty' = mark_dirty(s)
    /\ hist' = Mutation("mutation", s)
    /\ UNCHANGED Untouched

\* an edit that writes the tree to the tenant's rows at once
EditedSaving(s, tree) ==
    /\ Idle(s)
    /\ objectives' = [objectives EXCEPT ![s] = tree]
    /\ is_dirty' = [is_dirty EXCEPT ![s] = FALSE]
    /\ hist' = Mutation("mutation", s)
    /\ db' = CommitTable(db, DeleteTargets(db, SessionClient(s)),
                         InsertRows(s, to_dataframe(tree, SessionClient(s))))
    /\ UNCHANGED <<init_error, pc, client, df, deleted, pending, result,
                   MapperVars, UserVars, HeapVars>>

\* a bound input: the value typed reaches the field, and leaving the
\* input (blur) or the value change runs state.mark_dirty
Edited(s, tree) ==
    /\ Idle(s)
    /\ objectives' = [objectives EXCEPT ![s] = tree]
    /\ is_dirty' = mark_dirty(s)
    /\ hist' = Mutation("mutation", s)
    /\ UNCHANGED Untouched

\* ui.input().bind_value(obj, 'name').on('blur', state.mark_dirty)
EditObjectiveName(s, i, v) ==
    /\ i \in 1..Len(objectives[s])
    /\ Edited(s, [objectives[s] EXCEPT ![i].name = v])

\* ui.input('Nome do Key Result').bind_value(kr, 'name').on('blur', ...)
EditKRName(s, i, j, v) ==
    /\ i \in 1..Len(objectives[s])
    /\ j \in 1..Len(objectives[s][i].krs)
    /\ Edited(s, [objectives[s] EXCEPT ![i].krs[j].name = v])

\* ui.number('Atual').bind_value(kr, 'current').on('blur', ...)
EditKRCurrent(s, i, j, v) ==
    /\ i \in 1..Len(objectives[s])
    /\ j \in 1..Len(objectives[s][i].krs)
    /\ Edited(s, [objectives[s] EXCEPT ![i].krs[j].current = v])

\* ui.number('Meta').bind_value(kr, 'target').on('blur', ...)
EditKRTarget(s, i, j, v) ==
    /\ i \in 1..Len(objectives[s])
    /\ j \in 1..Len(objectives[s][i].krs)
    /\ Edited(s, [objectives[s] EXCEPT ![i].krs[j].target = v])

\* ui.input(...).bind_value(task, 'description').on('blur', ...)
EditTaskDescription(s, i, j, k, v) ==
    /\ i \in 1..Len(objectives[s])
    /\ j \in 1..Len(objectives[s][i].krs)
    /\ k \in 1..Len(objectives[s][i].krs[j].tasks)
    /\ Edited(s, [objectives[s] EXCEPT ![i].krs[j].tasks[k].description = v])

\* ui.select(...).bind_value(task, 'status').on_value_change(state.mark_dirty)
EditTaskStatus(s, i, j, k, v) ==
    /\ i \in 1..Len(objectives[s])
    /\ j \in 1..Len(objectives[s][i].krs)
    /\ k \in 1..Len(objectives[s][i].krs[j].tasks)
    /\ v # objectives[s][i].krs[j].tasks[k].status
    /\ Edited(s, [objectives[s] EXCEPT ![i].krs[j].tasks[k].status = v])

\* ui.input(label='Responsável').bind_value(task, 'responsible').on('blur', ...)
EditTaskResponsible(s, i, j, k, v) ==
    /\ i \in 1..Len(objectives[s])
    /\ j \in 1..Len(objectives[s][i].krs)
    /\ k \in 1..Len(objectives[s][i].krs[j].tasks)
    /\ Edited(s, [objectives[s] EXCEPT ![i].krs[j].tasks[k].responsible = v])

\* ui.input(label='Prazo').bind_value(task, 'deadline') and its ui.date()
EditTaskDeadline(s, i, j, k, v) ==
    /\ i \in 1..Len(objectives[s])
    /\ j \in 1..Len(objectives[s][i].krs)
    /\ k \in 1..Len(objectives[s][i].krs[j].tasks)
    /\ Edited(s, [objectives[s] EXCEPT ![i].krs[j].tasks[k].deadline = v])

\* a rename that gives every Objective the new department
RenamedAll(objs, old_name, new_name) ==
    [i \in 1..Len(objs) |-> [objs[i] EXCEPT !.department = new_name]]

\* rename_department: the list after the loop
Renamed(objs, old_name, new_name) ==
    [i \in 1..Len(objs) |->
        IF objs[i].department = old_name
        THEN [objs[i] EXCEPT !.department = new_name]
        ELSE objs[i]]

\* a flag set whether or not an objective matched
DirtyAlways(changed, s) == mark_dirty(s)

\* if changed: self.mark_dirty()
DirtyIf(changed, s) == IF changed THEN mark_dirty(s) ELSE is_dirty

\* OKRState.rename_department
RenameDepartment(s, old_name, new_name) ==
    /\ Idle(s)
    /\ LET changed == \E i \in 1..Len(objectives[s]) :
                          objectives[s][i].department = old_name
       IN  IF new_name = ""
           THEN UNCHANGED <<objectives, is_dirty>>
           ELSE /\ objectives' = [objectives EXCEPT ![s] =
                                    Renamed(@, old_name, new_name)]
                /\ is_dirty' = DirtyIf(changed, s)
    /\ hist' = Mutation("department", s)
    /\ UNCHANGED Untouched

\* OKRState.delete_department
DeleteDepartment(s, dept_name) ==
    /\ Idle(s)
    /\ LET kept == SelectSeq(objectives[s], LAMBDA o : o.department # dept_name)
       IN  /\ objectives' = [objectives EXCEPT ![s] = kept]
           /\ is_dirty' = DirtyIf(Len(kept) < Len(objectives[s]), s)
    /\ hist' = Mutation("department", s)
    /\ UNCHANGED Untouched

\* export_excel: to_dataframe of the tree goes to the download
Export(s) ==
    /\ Idle(s)
    /\ hist' = [Step("export", s) EXCEPT
                  !.loaded.rows = to_dataframe(objectives[s], SessionClient(s))]
    /\ UNCHANGED <<StoreVars, SessionVars, MapperVars, UserVars, HeapVars>>

\* OKRState.save up to the first statement of sync_data
Save(s) ==
    /\ SyncCall(s, to_dataframe(objectives[s], SessionClient(s)), SessionClient(s))
    /\ hist' = [CallHistory(s, SessionClient(s), "save") EXCEPT
                  !.dirtyBefore = is_dirty[s]]
    /\ UNCHANGED <<SessionVars, MapperVars, UserVars, HeapVars>>

\* a save that clears the flag whatever sync_data returned
DirtyCleared(ok, dirty) == FALSE

\* is_dirty after sync_data returned ok
DirtyAfterSave(ok, dirty) == IF ok THEN FALSE ELSE dirty

\* OKRState.save once sync_data returned
SaveReturn(s) ==
    /\ pc[s] = "ret"
    /\ is_dirty' = [is_dirty EXCEPT ![s] = DirtyAfterSave(result[s], @)]
    /\ pc' = [pc EXCEPT ![s] = "idle"]
    /\ client' = [client EXCEPT ![s] = "A"]
    /\ df' = [df EXCEPT ![s] = <<>>]
    /\ result' = [result EXCEPT ![s] = FALSE]
    /\ hist' = [SyncStep("save_return", s) EXCEPT
                  !.alone[s] = TRUE, !.ok = result[s],
                  !.notified = IF result[s] THEN "positive" ELSE "negative"]
    /\ UNCHANGED <<init_error, db, deleted, pending, objectives, MapperVars, UserVars, HeapVars>>

Init ==
    /\ init_error \in BOOLEAN
    /\ db \in SessionSeedTables
    /\ StoreIdle
    /\ objectives = [s \in Sessions |->
                       LoadedTree(<<>>, load_client_data(SessionClient(s)))]
    /\ is_dirty = [s \in Sessions |-> FALSE]
    /\ MapperIdle
    /\ UserIdle
    /\ HeapIdle
    /\ hist = NoHistory

\* the handlers of render_management and the department operations
Handlers(s) ==
        \/ \E d \in Departments, n \in ObjectiveNames : AddObjective(s, d, n)
        \/ \E i \in 1..MaxObjectives : RemoveObjective(s, i)
        \/ \E i \in 1..MaxObjectives : AddFirstKeyResult(s, i)
        \/ \E i \in 1..MaxObjectives : AddKeyResult(s, i)
        \/ \E i \in 1..MaxObjectives, j \in 1..MaxKRs : RemoveKeyResult(s, i, j)
        \/ \E i \in 1..MaxObjectives, j \in 1..MaxKRs : AddTask(s, i, j)
        \/ \E i \in 1..MaxObjectives, j \in 1..MaxKRs, k \in 1..MaxTasks :
              RemoveTask(s, i, j, k)
        \/ \E i \in 1..MaxObjectives, v \in ObjectiveNames : EditObjectiveName(s, i, v)
        \/ \E i \in 1..MaxObjectives, j \in 1..MaxKRs, v \in KRNames :
              EditKRName(s, i, j, v)
        \/ \E i \in 1..MaxObjectives, j \in 1..MaxKRs, v \in CurrentInputs :
              EditKRCurrent(s, i, j, v)
        \/ \E i \in 1..MaxObjectives, j \in 1..MaxKRs, v \in TargetInputs :
              EditKRTarget(s, i, j, v)
        \/ \E i \in 1..MaxObjectives, j \in 1..MaxKRs, k \in 1..MaxTasks,
              v \in DescriptionInputs : EditTaskDescription(s, i, j, k, v)
        \/ \E i \in 1..MaxObjectives, j \in 1..MaxKRs, k \in 1..MaxTasks,
              v \in StatusInputs : EditTaskStatus(s, i, j, k, v)
        \/ \E i \in 1..MaxObjectives, j \in 1..MaxKRs, k \in 1..MaxTasks,
              v \in ResponsibleInputs : EditTaskResponsible(s, i, j, k, v)
        \/ \E i \in 1..MaxObjectives, j \in 1..MaxKRs, k \in 1..MaxTasks,
              v \in DeadlineInputs : EditTaskDeadline(s, i, j, k, v)
        \/ \E old \in Departments, new \in Departments \cup {""} :
              RenameDepartment(s, old, new)
        \/ \E d \in Departments : DeleteDepartment(s, d)
        \/ Export(s)

Next ==
    \E s \in Sessions :
        \/ Load(s)
        \/ Handlers(s)
        \/ Save(s)
        \/ SyncInsert(s) /\ UNCHANGED <<SessionVars, MapperVars, UserVars, HeapVars>>
        \/ SyncCommit(s) /\ UNCHANGED <<SessionVars, MapperVars, UserVars, HeapVars>>
        \/ SyncFail(s) /\ UNCHANGED <<SessionVars, MapperVars, UserVars, HeapVars>>
        \/ SaveReturn(s)

Spec == Init /\ [][Next]_vars

(***************************************************************************)
(* One session over a store that is reachable and answers every statement: *)
(* the engine was created, no read, insert or commit fails.                *)
(***************************************************************************)
ReachableInit == Init /\ ~init_error

ReachableNext ==
    \E s \in Sessions :
        \/ LoadWith(s, FALSE)
        \/ Handlers(s)
        \/ Save(s)
        \/ SyncInsert(s) /\ UNCHANGED <<SessionVars, MapperVars, UserVars, HeapVars>>
        \/ SyncCommit(s) /\ UNCHANGED <<SessionVars, MapperVars, UserVars, HeapVars>>
        \/ SaveReturn(s)

SpecReachable == ReachableInit /\ [][ReachableNext]_vars

\* the tree has no unsaved change: its records are the tenant's rows
Saved(s) ==
    to_dataframe(objectives[s], SessionClient(s))
        = Records(TenantRows(db, SessionClient(s)))

\* C20: in one session over a reachable store with no other writer, while
\* is_dirty is false to_dataframe of the tree equals the tenant's persisted
\* rows (ids aside).
C20_DirtyMeaning ==
    \A s \in Sessions : (Idle(s) /\ ~is_dirty[s]) => Saved(s)

\* C2: after add objective, remove objective, add key result, remove key
\* result, add task, remove task or a field edit, is_dirty is true.
C2_MutationSetsDirty == hist.op = "mutation" => is_dirty[hist.conn]

\* C14, as stated: after load() the tree is _parse_dataframe of the tenant's
\* persisted rows and is_dirty is false.
C14_LoadPersistedRows ==
    hist.op = "load" =>
        /\ objectives[hist.conn] =
              _parse_dataframe(Records(TenantRows(db, SessionClient(hist.conn))))
        /\ ~is_dirty[hist.conn]

\* C14, amended: after load() the tree is _parse_dataframe of the rows
\* load_client_data returned, which are the tenant's persisted rows unless
\* the read failed (then none); is_dirty is false, whatever the tree and the
\* flag were; the persisted rows are as before.
C14_Load ==
    /\ [](hist.op = "load" =>
            /\ objectives[hist.conn] = _parse_dataframe(Records(hist.loaded.rows))
            /\ ~hist.loaded.failed =>
                  hist.loaded.rows = TenantRows(db, SessionClient(hist.conn))
            /\ hist.loaded.failed => hist.loaded.rows = <<>>
            /\ ~is_dirty[hist.conn])
    /\ [][hist'.op = "load" => db' = db]_vars

\* a load read the rows the tenant holds into a session that was dirty
C14_Witness ==
    /\ hist.op = "load"
    /\ hist.dirtyBefore
    /\ ~hist.loaded.failed
    /\ hist.loaded.rows # <<>>
    /\ objectives[hist.conn] # <<>>

\* some Objective of the list has the department
HasDepartment(objs, d) == \E i \in 1..Len(objs) : objs[i].department = d

\* C16: rename_department(old, new) and delete_department(name) leave the
\* Objective list and is_dirty as they are when no Objective has the given
\* department, and set is_dirty when one has (and the new name is not empty).
C16_DepartmentOps ==
    [][\A s \in Sessions, d \in Departments :
          /\ \A new \in Departments \cup {""} :
                RenameDepartment(s, d, new) =>
                    IF HasDepartment(objectives[s], d) /\ new # ""
                    THEN is_dirty'[s]
                    ELSE UNCHANGED <<objectives, is_dirty>>
          /\ DeleteDepartment(s, d) =>
                IF HasDepartment(objectives[s], d)
                THEN is_dirty'[s]
                ELSE UNCHANGED <<objectives, is_dirty>>]_vars

\* a department operation ran on a clean session that holds objectives, none
\* of them of department TI, and left it clean
C16_Witness ==
    /\ hist.op = "department"
    /\ objectives[hist.conn] # <<>>
    /\ ~HasDepartment(objectives[hist.conn], "TI")
    /\ ~is_dirty[hist.conn]

EditOps == {"mutation", "department", "load", "export"}

\* C17: every operation other than save() (add and remove of objective, key
\* result or task, field edits, rename and delete of a department, load,
\* export) leaves the persisted rows of every tenant unchanged; they change
\* only at the commit of a save().
C17_PersistOnlyOnSave ==
    [][/\ hist'.op \in EditOps => db' = db
       /\ db' # db => (hist'.op = "commit" /\ pc[hist'.conn] \in InFlight)]_vars

\* a handler changed a tree that was saved, and the rows are as saved
C17_Witness ==
    /\ hist.op = "mutation"
    /\ is_dirty[hist.conn]
    /\ TenantRows(db, SessionClient(hist.conn)) # <<>>
    /\ to_dataframe(objectives[hist.conn], SessionClient(hist.conn))
          # Records(TenantRows(db, SessionClient(hist.conn)))

\* C27: in every step where is_dirty goes from true to false the step is the
\* end of a save() whose sync_data returned True, or a load(); no mutation,
\* failed save, rename or delete of a department or export clears the flag.
C27_DirtyClearedOnlyBy ==
    [][\A s \in Sessions :
          (is_dirty[s] /\ ~is_dirty'[s]) =>
              /\ hist'.conn = s
              /\ \/ hist'.op = "load"
                 \/ hist'.op = "save_return" /\ result[s] /\ hist'.ok]_vars

\* a save() of a dirty session ended after its commit, and the flag is clear
C27_Witness ==
    /\ hist.op = "save_return"
    /\ hist.ok
    /\ hist.dirtyBefore
    /\ ~is_dirty[hist.conn]

\* the Objectives of another department than d, in their order
RECURSIVE OfOtherDepartments(_, _)
OfOtherDepartments(objs, d) ==
    IF objs = <<>> THEN <<>>
    ELSE IF Head(objs).department = d THEN OfOtherDepartments(Tail(objs), d)
    ELSE <<Head(objs)>> \o OfOtherDepartments(Tail(objs), d)

\* C28: delete_department(name) removes exactly the Objectives of that
\* department and keeps the others in their order; rename_department(old,
\* new) with a new name changes the department of exactly the Objectives of
\* department old and nothing else; with an empty new name it changes
\* nothing, is_dirty included.
C28_DepartmentFrame ==
    [][\A s \in Sessions, d \in Departments :
          /\ DeleteDepartment(s, d) =>
                objectives'[s] = OfOtherDepartments(objectives[s], d)
          /\ \A new \in Departments \cup {""} :
                RenameDepartment(s, d, new) =>
                    IF new = "" THEN UNCHANGED <<objectives, is_dirty>>
                    ELSE /\ Len(objectives'[s]) = Len(objectives[s])
                         /\ \A i \in 1..Len(objectives[s]) :
                               /\ objectives'[s][i].name = objectives[s][i].name
                               /\ objectives'[s][i].krs = objectives[s][i].krs
                               /\ objectives'[s][i].department =
                                     IF objectives[s][i].department = d THEN new
                                     ELSE objectives[s][i].department]_vars

\* a department operation left a changed list that holds an Objective with a
\* key result
C28_Witness ==
    /\ hist.op = "department"
    /\ is_dirty[hist.conn]
    /\ \E i \in 1..Len(objectives[hist.conn]) :
          /\ objectives[hist.conn][i].department = "TI"
          /\ objectives[hist.conn][i].krs # <<>>

\* C6: when save() ends after sync_data succeeded, is_dirty is false; after
\* sync_data failed, is_dirty is what it was before the call and the failure
\* was notified; either way sync_data was called once.
C6_SaveDirtyFlag ==
    hist.op = "save_return" =>
        /\ hist.attempts = 1
        /\ hist.ok => (~is_dirty[hist.conn] /\ hist.notified = "positive")
        /\ ~hist.ok => ( /\ is_dirty[hist.conn] = hist.dirtyBefore
                         /\ hist.notified = "negative" )

\* a save() of a dirty session ended after its transaction, begun, failed
C6_Witness ==
    /\ hist.op = "save_return"
    /\ ~hist.ok
    /\ hist.dirtyBefore
    /\ is_dirty[hist.conn]
    /\ ~init_error

\* C8: a save() that follows a save() of the same session with no mutation
\* in between (the session being the only writer) leaves the tenant's rows,
\* compared without the surrogate id, as the first left them.
C8_SaveIdempotent ==
    [][(hist'.op = "commit" /\ hist'.resaved) =>
          Records(TenantRows(db', client[hist'.conn]))
              = Records(TenantRows(db, client[hist'.conn]))]_vars

\* the second of two such saves has committed, the tenant holding rows
C8_Witness ==
    /\ hist.op = "commit"
    /\ hist.resaved
    /\ TenantRows(db, client[hist.conn]) # <<>>

(***************************************************************************)
(* The record mapper, run on bounded trees.                                *)
(***************************************************************************)
MapperInit ==
    /\ init_error = FALSE
    /\ db = TableOf(<<>>)
    /\ StoreIdle
    /\ SessionIdle
    /\ UserIdle
    /\ HeapIdle
    /\ mapPc = "tree"
    /\ mapIn \in TreeInputs
    /\ mapDf = <<>>
    /\ mapOut = <<>>
    /\ hist = NoHistory

\* df = state.to_dataframe()
MapToDataframe ==
    /\ mapPc = "tree"
    /\ mapDf' = to_dataframe(mapIn, "A")
    /\ mapPc' = "frame"
    /\ UNCHANGED <<StoreVars, SessionVars, UserVars, HeapVars, mapIn, mapOut, hist>>

\* state._parse_dataframe(df)
MapParseDataframe ==
    /\ mapPc = "frame"
    /\ mapOut' = _parse_dataframe(mapDf)
    /\ mapPc' = "parsed"
    /\ UNCHANGED <<StoreVars, SessionVars, UserVars, HeapVars, mapIn, mapDf, hist>>

MapperNext ==
    \/ MapToDataframe
    \/ MapParseDataframe

SpecMapper == MapperInit /\ [][MapperNext]_vars

\* C1: _parse_dataframe(to_dataframe(T)) holds the same multiset of
\* (department, objective name, KR name, KR current, KR target, task fields)
\* as T, for any tree T: empty strings, duplicate names and a target of 0
\* included.
C1_RoundTrip ==
    mapPc = "parsed" => SeqToBag(TreeEntries(mapOut)) = SeqToBag(TreeEntries(mapIn))

Max(a, b) == IF a > b THEN a ELSE b

\* max(1, number of tasks), summed over the key results from the i-th on
RECURSIVE ExpectedKRRows(_, _)
ExpectedKRRows(krs, i) ==
    IF i > Len(krs) THEN 0
    ELSE Max(1, Len(krs[i].tasks)) + ExpectedKRRows(krs, i + 1)

\* max(1, rows of its key results), summed over the objectives up to the n-th
RECURSIVE ExpectedRows(_, _)
ExpectedRows(objs, n) ==
    IF n = 0 THEN 0
    ELSE ExpectedRows(objs, n - 1) + Max(1, ExpectedKRRows(objs[n].krs, 1))

\* where the records of the j-th key result of the i-th objective begin
FirstRowOf(objs, i, j) ==
    1 + ExpectedRows(objs, i - 1)
      + ExpectedKRRows(SubSeq(objs[i].krs, 1, j - 1), 1)

\* C12: in the frame of to_dataframe each Objective without KeyResults has
\* one record, with kr and tarefa empty, avanco 0 and alvo 1, and each
\* KeyResult without Tasks has one record, with tarefa empty and the
\* KeyResult's name, current and target; each at its place in the frame.
C12_Placeholders ==
    mapPc = "frame" =>
        \A i \in 1..Len(mapIn) :
            LET obj == mapIn[i]
            IN  /\ obj.krs = <<>> =>
                      LET at == FirstRowOf(mapIn, i, 1)
                      IN  /\ at <= Len(mapDf)
                          /\ mapDf[at].departamento = obj.department
                          /\ mapDf[at].objetivo = obj.name
                          /\ mapDf[at].kr = "" /\ mapDf[at].tarefa = ""
                          /\ mapDf[at].avanco = 0 /\ mapDf[at].alvo = 1
                          /\ mapDf[at].cliente = "A"
                /\ \A j \in 1..Len(obj.krs) :
                      obj.krs[j].tasks = <<>> =>
                          LET at == FirstRowOf(mapIn, i, j)
                          IN  /\ at <= Len(mapDf)
                              /\ mapDf[at].departamento = obj.department
                              /\ mapDf[at].objetivo = obj.name
                              /\ mapDf[at].kr = obj.krs[j].name
                              /\ mapDf[at].tarefa = ""
                              /\ mapDf[at].avanco = obj.krs[j].current
                              /\ mapDf[at].alvo = obj.krs[j].target
                              /\ mapDf[at].cliente = "A"

\* the frame was made of an objective whose one key result, of target 0,
\* holds no tasks, and of an objective without key results after it
C12_Witness ==
    /\ mapPc = "frame"
    /\ Len(mapIn) = 2
    /\ Len(mapIn[1].krs) = 1
    /\ mapIn[1].krs[1].tasks = <<>>
    /\ mapIn[1].krs[1].target = 0
    /\ mapIn[2].krs = <<>>
    /\ Len(mapDf) = 2

\* C13: the number of records of to_dataframe is the sum over the
\* Objectives of max(1, sum over its KeyResults of max(1, number of Tasks)).
C13_RowCount ==
    mapPc = "frame" => Len(mapDf) = ExpectedRows(mapIn, Len(mapIn))

\* the frame was made of an objective whose one key result holds two tasks
C13_Witness ==
    /\ mapPc = "frame"
    /\ Len(mapIn) = 1
    /\ Len(mapIn[1].krs) = 1
    /\ Len(mapIn[1].krs[1].tasks) = 2
    /\ Len(mapDf) = 2

(***************************************************************************)
(* The derived progress, computed on bounded inputs.                       *)
(***************************************************************************)
ProgressInit ==
    /\ init_error = FALSE
    /\ db = TableOf(<<>>)
    /\ StoreIdle
    /\ SessionIdle
    /\ UserIdle
    /\ HeapIdle
    /\ mapPc = "objective"
    /\ mapIn \in ProgressInputs
    /\ mapDf = <<>>
    /\ mapOut = <<>>
    /\ hist = NoHistory

\* k.progress is read for the j-th key result of the objective
ReadKeyResultProgress(j) ==
    /\ mapPc = "objective"
    /\ j \in 1..Len(mapIn.krs)
    /\ mapOut' = [of |-> mapIn.krs[j], progress |-> KeyResult_progress(mapIn.krs[j])]
    /\ mapPc' = "kr_progress"
    /\ UNCHANGED <<StoreVars, SessionVars, UserVars, HeapVars, mapIn, mapDf, hist>>

\* obj.progress is read
ReadObjectiveProgress ==
    /\ mapPc = "objective"
    /\ mapOut' = [of |-> mapIn, progress |-> Objective_progress(mapIn)]
    /\ mapPc' = "objective_progress"
    /\ UNCHANGED <<StoreVars, SessionVars, UserVars, HeapVars, mapIn, mapDf, hist>>

ProgressNext ==
    \/ \E j \in 1..MaxKRs : ReadKeyResultProgress(j)
    \/ ReadObjectiveProgress

SpecProgress == ProgressInit /\ [][ProgressNext]_vars

\* 0 <= p <= 1 for a progress p that is a number
InUnitInterval(p) == p # ZeroDivisionError /\ p[2] > 0 /\ 0 <= p[1] /\ p[1] <= p[2]

\* C9: every progress read, of a KeyResult (any current and target, negative
\* values and a target of 0 included) or of an Objective (any number of
\* KeyResults), is at least 0 and at most 1.
C9_ProgressRange ==
    mapPc \in {"kr_progress", "objective_progress"} => InUnitInterval(mapOut.progress)

\* the progress of an objective with two key results was read, one of a
\* negative ratio and one of a ratio above 1
C9_Witness ==
    /\ mapPc = "objective_progress"
    /\ Len(mapOut.of.krs) = 2
    /\ mapOut.of.krs[1].current < 0 /\ mapOut.of.krs[1].target > 0
    /\ mapOut.of.krs[2].current > mapOut.of.krs[2].target
    /\ mapOut.of.krs[2].target > 0
    /\ mapOut.progress = <<1, 2>>

\* p is the number current/target cut to [0, 1], for target # 0
IsClampedRatio(p, current, target) ==
    LET below == (current < 0) # (target < 0)
        above == ~below /\ Abs(current) > Abs(target)
    IN  /\ p # ZeroDivisionError
        /\ p[2] > 0
        /\ IF below THEN p[1] = 0
           ELSE IF above THEN p[1] = p[2]
           ELSE p[1] * target = current * p[2]

\* C10: the progress of a KeyResult is current/target cut to [0, 1] when
\* target is not 0; with a target of 0 it is 1 for current >= 0 and 0 for
\* current < 0; no division by zero happens.
C10_KeyResultProgress ==
    mapPc = "kr_progress" =>
        LET kr == mapOut.of
            p == mapOut.progress
        IN  /\ p # ZeroDivisionError
            /\ kr.target # 0 => IsClampedRatio(p, kr.current, kr.target)
            /\ (kr.target = 0 /\ kr.current >= 0) => p = ROne
            /\ (kr.target = 0 /\ kr.current < 0) => p = RZero

\* the progress of a key result with target 0 and a negative current was read
C10_Witness ==
    /\ mapPc = "kr_progress"
    /\ mapOut.of.target = 0
    /\ mapOut.of.current < 0
    /\ mapOut.progress = RZero

\* the product of the denominators of the progress of the key results
RECURSIVE DenProduct(_, _)
DenProduct(krs, i) ==
    IF i > Len(krs) THEN 1
    ELSE KeyResult_progress(krs[i])[2] * DenProduct(krs, i + 1)

\* the sum of the progress of the key results, as a numerator over D
RECURSIVE NumSum(_, _, _)
NumSum(krs, i, D) ==
    IF i > Len(krs) THEN 0
    ELSE LET q == KeyResult_progress(krs[i])
         IN  q[1] * (D \div q[2]) + NumSum(krs, i + 1, D)

\* C11: the progress of an Objective is the arithmetic mean of the progress
\* of its KeyResults, each counted once whatever tasks it holds, and 0 when
\* it has no KeyResults.
C11_ObjectiveMean ==
    mapPc = "objective_progress" =>
        LET krs == mapOut.of.krs
            p == mapOut.progress
            D == DenProduct(krs, 1)
        IN  /\ p # ZeroDivisionError
            /\ krs = <<>> => p = RZero
            /\ krs # <<>> => p[1] * Len(krs) * D = p[2] * NumSum(krs, 1, D)

\* the progress of an objective was read whose first key result, of
\* progress 0, holds a task and whose second, of progress 1, holds none
C11_Witness ==
    /\ mapPc = "objective_progress"
    /\ Len(mapOut.of.krs) = 2
    /\ mapOut.of.krs[1].tasks # <<>>
    /\ mapOut.of.krs[2].tasks = <<>>
    /\ KeyResult_progress(mapOut.of.krs[1]) = RZero
    /\ KeyResult_progress(mapOut.of.krs[2]) = ROne
    /\ mapOut.progress = <<1, 2>>

(***************************************************************************)
(* The instances.  Every Objective, KeyResult and Task constructed is an  *)
(* instance of its own (id = uuid4()); a list holds references.  heap.cell *)
(* gives the fields of each live instance, heap.objectives is              *)
(* OKRState.objectives.  An instance no list refers to is dropped.         *)
(***************************************************************************)
MaxRefs == 5
MaxHeapRows == 2

HeapKRNames == {"", "K1"}
HeapTaskNames == {"", "T1"}

\* the columns of a record that decide which instances _parse_dataframe makes
HeapRow ==
    [departamento : Departments, objetivo : ObjectiveNames,
     kr : HeapKRNames, tarefa : HeapTaskNames]

HeapFrames == UNION { [1..n -> HeapRow] : n \in 0..MaxHeapRows }

Refs(h) == DOMAIN h.cell

\* the reference of an instance just constructed: none of the live ones
Fresh(h) ==
    CHOOSE r \in 1..(Cardinality(Refs(h)) + 1) :
        /\ r \notin Refs(h)
        /\ \A q \in 1..(r - 1) : q \in Refs(h)

\* the heap with instance r holding the fields c
Alloc(h, r, c) ==
    [h EXCEPT !.cell = [x \in Refs(h) \cup {r} |-> IF x = r THEN c ELSE h.cell[x]]]

ObjectiveCell(department, name) ==
    [kind |-> "Objective", department |-> department, name |-> name, krs |-> <<>>]

KeyResultCell(name) == [kind |-> "KeyResult", name |-> name, tasks |-> <<>>]

TaskCell(description) == [kind |-> "Task", description |-> description]

Elements(seq) == {seq[i] : i \in 1..Len(seq)}

\* the instances the Objective list leads to
Reachable(h) ==
    LET objs == Elements(h.objectives)
        krs == UNION {Elements(h.cell[o].krs) : o \in objs}
        tasks == UNION {Elements(h.cell[k].tasks) : k \in krs}
    IN  objs \cup krs \cup tasks

\* instances no list refers to are gone
Collect(h) == [h EXCEPT !.cell = [r \in Reachable(h) |-> h.cell[r]]]

\* list.remove(x): the first element equal to x goes
RemoveFirst(seq, x) ==
    LET i == CHOOSE j \in 1..Len(seq) :
                 seq[j] = x /\ \A q \in 1..(j - 1) : seq[q] # x
    IN  RemoveAt(seq, i)

\* a constructor that hands out the last instance of that name again
KeyResultInterned(h, name) ==
    LET same == {r \in Refs(h) : h.cell[r].kind = "KeyResult" /\ h.cell[r].name = name}
    IN  IF same = {} THEN Fresh(h) ELSE CHOOSE r \in same : TRUE

\* KeyResult(name=...): a new instance
KeyResultInstance(h, name) == Fresh(h)

\* obj.krs.append(KeyResult(name=...))
AppendKeyResultInstance(h, o, name) ==
    LET k == KeyResultInstance(h, name)
        h1 == Alloc(h, k, KeyResultCell(name))
    IN  [h1 EXCEPT !.cell[o].krs = Append(@, k)]

\* kr.tasks.append(Task(description=...))
AppendTaskInstance(h, k, description) ==
    LET t == Fresh(h)
        h1 == Alloc(h, t, TaskCell(description))
    IN  [h1 EXCEPT !.cell[k].tasks = Append(@, t)]

\* one iteration of the loop of _parse_dataframe; objs_dict is the list
\* heap.objectives looked up by (departamento, objetivo)
HeapParseRow(h, row) ==
    LET known == {r \in Elements(h.objectives) :
                     /\ h.cell[r].department = row.departamento
                     /\ h.cell[r].name = row.objetivo}
        o == IF known = {} THEN Fresh(h) ELSE CHOOSE r \in known : TRUE
        h1 == IF known = {}
              THEN [Alloc(h, o, ObjectiveCell(row.departamento, row.objetivo))
                      EXCEPT !.objectives = Append(@, o)]
              ELSE h
        named == {k \in Elements(h1.cell[o].krs) : h1.cell[k].name = row.kr}
        h2 == IF named = {} THEN AppendKeyResultInstance(h1, o, row.kr) ELSE h1
        kr == CHOOSE k \in Elements(h2.cell[o].krs) :
                  /\ h2.cell[k].name = row.kr
                  /\ named # {} => k \in named
    IN  IF row.kr = "" THEN h1
        ELSE IF row.tarefa = "" THEN h2
        ELSE AppendTaskInstance(h2, kr, row.tarefa)

RECURSIVE HeapParseRows(_, _, _)
HeapParseRows(h, rows, i) ==
    IF i > Len(rows) THEN h
    ELSE HeapParseRows(HeapParseRow(h, rows[i]), rows, i + 1)

\* _parse_dataframe on the references
HeapParse(rows) == HeapParseRows(HeapEmpty, rows, 1)

HasRoom == Cardinality(Refs(heap)) < MaxRefs

\* OKRState.load: the list is replaced by the instances parsed
HeapLoad(rows) ==
    /\ Cardinality(Refs(HeapParse(rows))) <= MaxRefs
    /\ heap' = HeapParse(rows)

\* OKRState.add_objective
HeapAddObjective(department, name) ==
    /\ HasRoom
    /\ LET o == Fresh(heap)
       IN  heap' = [Alloc(heap, o, ObjectiveCell(department, name))
                      EXCEPT !.objectives = Append(@, o)]

\* OKRState.remove_objective
HeapRemoveObjective(o) ==
    /\ o \in Elements(heap.objectives)
    /\ heap' = Collect([heap EXCEPT !.objectives = RemoveFirst(@, o)])

\* 'Adicionar Key Result': o.krs.append(KeyResult(name="Novo Key Result"))
HeapAddKeyResult(o) ==
    /\ HasRoom
    /\ o \in Elements(heap.objectives)
    /\ heap' = AppendKeyResultInstance(heap, o, "Novo Key Result")

\* o.krs.remove(k)
HeapRemoveKeyResult(o, k) ==
    /\ o \in Elements(heap.objectives)
    /\ k \in Elements(heap.cell[o].krs)
    /\ heap' = Collect([heap EXCEPT !.cell[o].krs = RemoveFirst(@, k)])

\* 'Adicionar tarefa': k.tasks.append(Task())
HeapAddTask(o, k) ==
    /\ HasRoom
    /\ o \in Elements(heap.objectives)
    /\ k \in Elements(heap.cell[o].krs)
    /\ heap' = AppendTaskInstance(heap, k, "")

\* k.tasks.remove(t)
HeapRemoveTask(o, k, t) ==
    /\ o \in Elements(heap.objectives)
    /\ k \in Elements(heap.cell[o].krs)
    /\ t \in Elements(heap.cell[k].tasks)
    /\ heap' = Collect([heap EXCEPT !.cell[k].tasks = RemoveFirst(@, t)])

\* OKRState.rename_department on the instances
HeapRenameDepartment(old_name, new_name) ==
    /\ new_name # ""
    /\ heap' = [heap EXCEPT !.cell =
                  [r \in Refs(heap) |->
                     IF r \in Elements(heap.objectives) /\ heap.cell[r].department = old_name
                     THEN [heap.cell[r] EXCEPT !.department = new_name]
                     ELSE heap.cell[r]]]

\* OKRState.delete_department on the instances
HeapDeleteDepartment(dept_name) ==
    heap' = Collect([heap EXCEPT !.objectives =
                       SelectSeq(@, LAMBDA o : heap.cell[o].department # dept_name)])

HeapInit ==
    /\ init_error = FALSE
    /\ db = TableOf(<<>>)
    /\ StoreIdle
    /\ SessionIdle
    /\ MapperIdle
    /\ UserIdle
    /\ heap = HeapEmpty
    /\ hist = NoHistory

HeapNext ==
    /\ \/ \E rows \in HeapFrames : HeapLoad(rows)
       \/ \E d \in Departments, n \in ObjectiveNames : HeapAddObjective(d, n)
       \/ \E o \in Refs(heap) : HeapRemoveObjective(o)
       \/ \E o \in Refs(heap) : HeapAddKeyResult(o)
       \/ \E o, k \in Refs(heap) : HeapRemoveKeyResult(o, k)
       \/ \E o, k \in Refs(heap) : HeapAddTask(o, k)
       \/ \E o, k, t \in Refs(heap) : HeapRemoveTask(o, k, t)
       \/ \E old, new \in Departments : HeapRenameDepartment(old, new)
       \/ \E d \in Departments : HeapDeleteDepartment(d)
    /\ UNCHANGED <<StoreVars, SessionVars, MapperVars, UserVars, hist>>

SpecHeap == HeapInit /\ [][HeapNext]_vars

\* the places (list owner, position) where instance r is held by a list
KeyResultOwners(h, r) ==
    {<<o, i>> \in Refs(h) \X (1..MaxRefs) :
        /\ h.cell[o].kind = "Objective"
        /\ i <= Len(h.cell[o].krs)
        /\ h.cell[o].krs[i] = r}

TaskOwners(h, r) ==
    {<<k, i>> \in Refs(h) \X (1..MaxRefs) :
        /\ h.cell[k].kind = "KeyResult"
        /\ i <= Len(h.cell[k].tasks)
        /\ h.cell[k].tasks[i] = r}

\* C19: in every state reached by load and the mutation operations, every
\* KeyResult instance is held once by the krs list of one Objective and
\* every Task instance once by the tasks list of one KeyResult.
C19_Ownership ==
    \A r \in Refs(heap) :
        /\ heap.cell[r].kind = "KeyResult" =>
              Cardinality(KeyResultOwners(heap, r)) = 1
        /\ heap.cell[r].kind = "Task" =>
              Cardinality(TaskOwners(heap, r)) = 1

\* two Objectives each hold a KeyResult of the same name, and a Task is held
C19_Witness ==
    \E o1, o2, k1, k2, t \in Refs(heap) :
        /\ o1 # o2 /\ k1 # k2
        /\ o1 \in Elements(heap.objectives) /\ o2 \in Elements(heap.objectives)
        /\ k1 \in Elements(heap.cell[o1].krs)
        /\ k2 \in Elements(heap.cell[o2].krs)
        /\ heap.cell[k1].name = heap.cell[k2].name
        /\ t \in Elements(heap.cell[k1].tasks)

(***************************************************************************)
(* _parse_dataframe run on bounded frames of records, as load() gets them  *)
(* from okr_data, then saved and loaded again.                             *)
(***************************************************************************)
MaxNumberRows == 2
MaxKeyRows == 3

\* what a numeric cell of okr_data may hold
CellNumbers == {NaN, 0, 2}

\* records that differ in kr, tarefa, avanco and alvo
NumberRows ==
    [departamento : {"Geral"}, objetivo : ObjectiveNames, kr : {"", "K1", "K2"},
     tarefa : {"", "T1"}, status : {""}, responsavel : {""}, prazo : {""},
     avanco : CellNumbers, alvo : CellNumbers, cliente : {"A"}]

\* records that differ in departamento, kr and tarefa, with NULL cells
KeyRows ==
    [departamento : Departments, objetivo : ObjectiveNames, kr : {"", "K1"},
     tarefa : {"", "T1"}, status : {None}, responsavel : {""}, prazo : {None},
     avanco : {2}, alvo : {2, 3}, cliente : {"A"}]

ParseFrames ==
    UNION { [1..n -> NumberRows] : n \in 0..MaxNumberRows }
        \cup UNION { [1..n -> KeyRows] : n \in 0..MaxKeyRows }

ParseInit ==
    /\ init_error = FALSE
    /\ db = TableOf(<<>>)
    /\ StoreIdle
    /\ SessionIdle
    /\ UserIdle
    /\ HeapIdle
    /\ mapPc = "frame"
    /\ mapIn = <<>>
    /\ mapDf \in ParseFrames
    /\ mapOut = <<>>
    /\ hist = NoHistory

\* load(): self.objectives = self._parse_dataframe(df)
ParseLoad ==
    /\ mapPc = "frame"
    /\ mapOut' = _parse_dataframe(mapDf)
    /\ mapPc' = "parsed"
    /\ UNCHANGED <<StoreVars, SessionVars, UserVars, HeapVars, mapIn, mapDf, hist>>

\* save() without a mutation: the rows become to_dataframe of the tree; the
\* tree of the first load is kept in mapIn
ParseSave ==
    /\ mapPc = "parsed"
    /\ mapIn' = mapOut
    /\ mapDf' = to_dataframe(mapOut, "A")
    /\ mapPc' = "saved"
    /\ UNCHANGED <<StoreVars, SessionVars, UserVars, HeapVars, mapOut, hist>>

\* load() again
ParseReload ==
    /\ mapPc = "saved"
    /\ mapOut' = _parse_dataframe(mapDf)
    /\ mapPc' = "reloaded"
    /\ UNCHANGED <<StoreVars, SessionVars, UserVars, HeapVars, mapIn, mapDf, hist>>

ParseNext ==
    \/ ParseLoad
    \/ ParseSave
    \/ ParseReload

SpecParse == ParseInit /\ [][ParseNext]_vars

\* the (department, objective name) pair of a record after fillna('')
PairOf(row) == <<FillNa(row.departamento), FillNa(row.objetivo)>>

\* the pair of record i occurs in no earlier record
FirstOfPair(rows, i) == \A j \in 1..(i - 1) : PairOf(rows[j]) # PairOf(rows[i])

\* the pairs of the records in order of first occurrence
RECURSIVE PairsInOrder(_, _)
PairsInOrder(rows, i) ==
    IF i > Len(rows) THEN <<>>
    ELSE IF FirstOfPair(rows, i) THEN <<PairOf(rows[i])>> \o PairsInOrder(rows, i + 1)
    ELSE PairsInOrder(rows, i + 1)

\* C21: _parse_dataframe returns one Objective per distinct (department,
\* objective name) pair of the records, in order of first occurrence, also
\* when the records of a pair are not adjacent.
C21_GroupByPair ==
    mapPc = "parsed" =>
        [i \in 1..Len(mapOut) |-> <<mapOut[i].department, mapOut[i].name>>]
            = PairsInOrder(mapDf, 1)

\* three records parsed, the first and the third of one pair, the second of
\* another
C21_Witness ==
    /\ mapPc = "parsed"
    /\ Len(mapDf) = 3
    /\ PairOf(mapDf[1]) = PairOf(mapDf[3])
    /\ PairOf(mapDf[1]) # PairOf(mapDf[2])
    /\ Len(mapOut) = 2

\* record i is of the pair and names a key result
NamesKR(rows, i, pair) == PairOf(rows[i]) = pair /\ FillNa(rows[i].kr) # ""

\* record i is the first of its pair with its KR name
FirstOfKR(rows, i) ==
    \A j \in 1..(i - 1) :
        ~(PairOf(rows[j]) = PairOf(rows[i]) /\ rows[j].kr = rows[i].kr)

\* indices of the records that create the key results of a pair, in order
RECURSIVE KRCreators(_, _, _)
KRCreators(rows, pair, i) ==
    IF i > Len(rows) THEN <<>>
    ELSE IF NamesKR(rows, i, pair) /\ FirstOfKR(rows, i)
         THEN <<i>> \o KRCreators(rows, pair, i + 1)
    ELSE KRCreators(rows, pair, i + 1)

\* the stored number a created KeyResult is expected to get: the default
\* for a NULL or zero cell, the cell otherwise
Expected(cell, default) == IF cell \in {NaN, 0} THEN default ELSE cell

\* C22: within an Objective the records of one non-empty KR name yield one
\* KeyResult, in order of first occurrence, whose current and target come
\* from the first such record; the same KR name under another Objective
\* yields a KeyResult of its own, with the values of its own first record.
C22_FindOrCreateKR ==
    mapPc = "parsed" =>
        \A o \in 1..Len(mapOut) :
            LET made == KRCreators(mapDf, <<mapOut[o].department, mapOut[o].name>>, 1)
            IN  /\ Len(mapOut[o].krs) = Len(made)
                /\ \A k \in 1..Len(made) :
                      /\ mapOut[o].krs[k].name = mapDf[made[k]].kr
                      /\ mapOut[o].krs[k].current
                            = Expected(mapDf[made[k]].avanco, 0)
                      /\ mapOut[o].krs[k].target
                            = Expected(mapDf[made[k]].alvo, 1)

\* two records of one Objective name the same key result with different
\* targets, and one key result came out
C22_Witness ==
    /\ mapPc = "parsed"
    /\ Len(mapDf) >= 2
    /\ PairOf(mapDf[1]) = PairOf(mapDf[2])
    /\ mapDf[1].kr = "K1" /\ mapDf[2].kr = "K1"
    /\ Expected(mapDf[1].alvo, 1) # Expected(mapDf[2].alvo, 1)
    /\ Len(mapOut) = 1
    /\ Len(mapOut[1].krs) = 1

\* C23: when a record creates a KeyResult, a target cell that is NULL or 0
\* becomes 1.0 and a current cell that is NULL or 0 becomes 0.0; any other
\* stored value is kept.
C23_NumericDefaults ==
    mapPc = "parsed" =>
        \A o \in 1..Len(mapOut) :
            LET made == KRCreators(mapDf, <<mapOut[o].department, mapOut[o].name>>, 1)
            IN  \A k \in 1..Min(Len(made), Len(mapOut[o].krs)) :
                    LET row == mapDf[made[k]]
                        kr == mapOut[o].krs[k]
                    IN  /\ row.alvo = NaN => kr.target = 1
                        /\ row.alvo = 0 => kr.target = 1
                        /\ row.alvo \notin {NaN, 0} => kr.target = row.alvo
                        /\ row.avanco = NaN => kr.current = 0
                        /\ row.avanco = 0 => kr.current = 0
                        /\ row.avanco \notin {NaN, 0} => kr.current = row.avanco

\* a record with a target of 0 and a NULL current and one with a target of 2
\* each created a KeyResult
C23_Witness ==
    /\ mapPc = "parsed"
    /\ \E i, j \in 1..Len(mapDf) :
          /\ mapDf[i].kr # "" /\ mapDf[i].alvo = 0 /\ mapDf[i].avanco = NaN
          /\ FirstOfKR(mapDf, i)
          /\ mapDf[j].kr # "" /\ mapDf[j].alvo = 2
          /\ FirstOfKR(mapDf, j)
    /\ \E o \in 1..Len(mapOut) : Len(mapOut[o].krs) >= 1

\* indices of the records of a pair that name the key result and carry a
\* task description, in order
RECURSIVE TaskRecords(_, _, _, _)
TaskRecords(rows, pair, name, i) ==
    IF i > Len(rows) THEN <<>>
    ELSE IF /\ PairOf(rows[i]) = pair
            /\ FillNa(rows[i].kr) = name
            /\ FillNa(rows[i].tarefa) # ""
         THEN <<i>> \o TaskRecords(rows, pair, name, i + 1)
    ELSE TaskRecords(rows, pair, name, i + 1)

\* C24: a record with an empty KR name creates its Objective if new and
\* adds no KeyResult and no Task, also when it carries a task description;
\* a record with a KR name adds a Task to that KeyResult exactly when its
\* task description is not empty.
C24_EmptyKRAndTasks ==
    mapPc = "parsed" =>
        /\ \A i \in 1..Len(mapDf) :
              \E o \in 1..Len(mapOut) :
                  <<mapOut[o].department, mapOut[o].name>> = PairOf(mapDf[i])
        /\ \A o \in 1..Len(mapOut) :
              LET pair == <<mapOut[o].department, mapOut[o].name>>
                  krs == mapOut[o].krs
              IN  /\ (\A i \in 1..Len(mapDf) : ~NamesKR(mapDf, i, pair)) => krs = <<>>
                  /\ \A k \in 1..Len(krs) :
                        LET from == TaskRecords(mapDf, pair, krs[k].name, 1)
                        IN  /\ krs[k].name # ""
                            /\ Len(krs[k].tasks) = Len(from)
                            /\ \A t \in 1..Min(Len(from), Len(krs[k].tasks)) :
                                  krs[k].tasks[t].description = mapDf[from[t]].tarefa

\* a record with an empty KR name and a task description made an Objective
\* that stays empty; another Objective got a key result with one task from
\* two records, one of them without a task description
C24_Witness ==
    /\ mapPc = "parsed"
    /\ Len(mapDf) = 3
    /\ mapDf[1].kr = "" /\ mapDf[1].tarefa = "T1"
    /\ PairOf(mapDf[2]) # PairOf(mapDf[1])
    /\ PairOf(mapDf[3]) = PairOf(mapDf[2])
    /\ mapDf[2].kr = "K1" /\ mapDf[2].tarefa = ""
    /\ mapDf[3].kr = "K1" /\ mapDf[3].tarefa = "T1"
    /\ Len(mapOut) = 2
    /\ mapOut[1].krs = <<>>
    /\ Len(mapOut[2].krs[1].tasks) = 1

\* C26: load, save without mutating, load again: the second load gives the
\* tree of the first, i.e. _parse_dataframe(to_dataframe(_parse_dataframe(R)))
\* equals _parse_dataframe(R) for any persisted records R.
C26_LoadSaveLoad == mapPc = "reloaded" => mapOut = mapIn

\* reloaded a tree that holds an Objective without key results and a key
\* result with a task, from the two rows a save writes for it
C26_Witness ==
    /\ mapPc = "reloaded"
    /\ Len(mapDf) = 2
    /\ \E o \in 1..Len(mapIn) : mapIn[o].krs = <<>>
    /\ \E o \in 1..Len(mapIn) : \E k \in 1..Len(mapIn[o].krs) :
          mapIn[o].krs[k].tasks # <<>>

====
